---- MODULE Spec2Model ----
(***************************************************************************)
(* A model of libmc: the packet framing and connection state machine of    *)
(* libmc/src/proto.rs (PacketStream::next_packet, PacketStream::send and   *)
(* the primitive codecs they call) and the NBT codec of libmc/src/nbt.rs.  *)
(*                                                                         *)
(* Bytes are the integers 0..255 and a byte stream is a sequence of them.  *)
(* A 64-bit integer (i64 / u64) is a sequence of 64 bits, least            *)
(* significant bit first, so that shifts, masks and the reinterpretation   *)
(* between i64 and u64 are computed at their true width.  Narrower         *)
(* integers (i8, i16, i32, u8, u16, lengths) are TLA+ integers.            *)
(* A string is the sequence of its UTF-8 bytes.                            *)
(***************************************************************************)
EXTENDS Integers, Sequences, FiniteSets, TLC

\* ------------------------------------------------------------------------
\* Bounds of the model.
\* ------------------------------------------------------------------------

\* The peer puts its next segment on the wire only while at most MaxPending
\* bytes wait unread in front of the reader.
MaxPending == 0

\* A writer that accepts only part of a buffer accepts 1..MaxPartial bytes.
MaxPartial == 1

\* The most CompoundNbt::set calls on the compound under construction.
MaxSets == 2

\* How many BitSet::set calls one BitSet gets.
MaxBitSets == 3

\* How many times the loop of run_server calls next_packet.
MaxPackets == 7

\* How many send calls one PacketStream gets in a row.
MaxSends == 2

\* ------------------------------------------------------------------------
\* Bits and bytes.
\* ------------------------------------------------------------------------

RECURSIVE Pow2(_)
Pow2(n) == IF n = 0 THEN 1 ELSE 2 * Pow2(n - 1)

\* Bit k (k = 0 is the least significant) of a nonnegative integer.
BitOf(x, k) == (x \div Pow2(k)) % 2

RECURSIVE SumBits(_, _, _)
\* The value of bits lo..hi (bit indices from 0) of bit vector b, bit lo
\* weighing 1.
SumBits(b, lo, hi) ==
    IF lo > hi THEN 0 ELSE b[lo + 1] + 2 * SumBits(b, lo + 1, hi)

\* An i64 from a small integer: `n as i64`, two's complement.
I64FromInt(n) ==
    [i \in 1..64 |-> IF i <= 31 THEN (n \div Pow2(i - 1)) % 2
                     ELSE IF n < 0 THEN 1 ELSE 0]

\* The i64 literals of the code.
I64Zero == I64FromInt(0)

I64One == I64FromInt(1)

I64Two == I64FromInt(2)

I64Three == I64FromInt(3)

\* Whether an i64 lies in -2^31 .. 2^31-1, the integers the model computes on.
I64IsSmall(b) == \A i \in 32..64 : b[i] = b[64]

\* The integer an i64 in that range stands for.
I64ToInt(b) ==
    IF b[64] = 1 THEN (SumBits(b, 0, 30) - Pow2(30)) - Pow2(30)
    ELSE SumBits(b, 0, 30)

I64IsNegative(b) == b[64] = 1

\* i64::to_be_bytes / u64 big-endian: byte 1 holds bits 56..63.
I64ToBeBytes(b) == [k \in 1..8 |-> SumBits(b, 8 * (8 - k), 8 * (8 - k) + 7)]

\* i64::from_be_bytes.
I64FromBeBytes(s) ==
    [i \in 1..64 |-> BitOf(s[8 - ((i - 1) \div 8)], (i - 1) % 8)]

\* i8 / i16 / i32 to_be_bytes: two's complement, most significant byte first.
IntToBeBytes(n, nbytes) ==
    [k \in 1..nbytes |-> (n \div Pow2(8 * (nbytes - k))) % 256]

RECURSIVE UnsignedFromBe(_)
\* u16::from_be_bytes and the like, for widths whose value fits.
UnsignedFromBe(s) ==
    IF Len(s) = 0 THEN 0
    ELSE s[Len(s)] + 256 * UnsignedFromBe(SubSeq(s, 1, Len(s) - 1))

\* i8 / i16 / i32 from_be_bytes: the top byte carries the sign.
SignedFromBe(s) ==
    (IF s[1] >= 128 THEN s[1] - 256 ELSE s[1]) * Pow2(8 * (Len(s) - 1))
        + UnsignedFromBe(SubSeq(s, 2, Len(s)))

RECURSIVE Concat(_)
\* The concatenation of a sequence of byte sequences.
Concat(ss) ==
    IF Len(ss) = 0 THEN <<>>
    ELSE IF Len(ss) = 1 THEN ss[1]
    ELSE Concat(SubSeq(ss, 1, Len(ss) \div 2))
            \o Concat(SubSeq(ss, (Len(ss) \div 2) + 1, Len(ss)))

IsPrefix(p, s) == Len(p) <= Len(s) /\ SubSeq(s, 1, Len(p)) = p

\* ------------------------------------------------------------------------
\* Results of a read.  A read of the stream s at offset p (the number of
\* bytes consumed so far) gives ok, the value v and the new offset, or fails:
\* "eof" when the stream holds too few bytes (read_exact's UnexpectedEof
\* under unwrap), "panic" for every other unwrap, assert or panic!.
\* ------------------------------------------------------------------------

Ok(v, p) == [ok |-> TRUE, why |-> "ok", v |-> v, p |-> p]

Fail(why, p) == [ok |-> FALSE, why |-> why, v |-> <<>>, p |-> p]

\* `let x = read(..); rest` where read unwraps: the rest F runs on the
\* result r of a read that succeeded, and the failure of one that did not
\* is the failure of the whole.
Then(r, F(_)) == IF r.ok THEN F(r) ELSE r

\* Read::read_exact of n bytes.
read_exact(s, p, n) ==
    IF p + n <= Len(s) THEN Ok(SubSeq(s, p + 1, p + n), p + n)
    ELSE Fail("eof", Len(s))

\* The bits (least significant first) of a big-endian byte string:
\* u128::from_be_bytes, f32::from_be_bytes (the IEEE-754 bit pattern), ...
BitsFromBeBytes(s) ==
    [i \in 1..(8 * Len(s)) |-> BitOf(s[Len(s) - ((i - 1) \div 8)], (i - 1) % 8)]

\* The big-endian bytes of a bit vector whose width is a multiple of 8.
BitsToBeBytes(b) ==
    [k \in 1..(Len(b) \div 8) |->
        SumBits(b, 8 * ((Len(b) \div 8) - k), 8 * ((Len(b) \div 8) - k) + 7)]

\* ------------------------------------------------------------------------
\* Primitive reads (proto.rs).
\* ------------------------------------------------------------------------

\* ret | ((x as i64) << sh) for a 7-bit x and 0 <= sh < 64: the bits shifted
\* past bit 63 are dropped.
OrShl(ret, x, sh) ==
    [i \in 1..64 |->
        IF ret[i] = 1
           \/ (i - 1 >= sh /\ i - 1 - sh <= 6 /\ BitOf(x, i - 1 - sh) = 1)
        THEN 1 ELSE 0]

RECURSIVE read_varint_loop(_, _, _, _, _, _)
\* The loop of read_varint_with_nread.  oc is the build's overflow-checks
\* setting: with it a shift of 64 or more panics, without it the shift
\* amount wraps modulo 64.
read_varint_loop(s, p, oc, ret, shift, nread) ==
    LET rb == read_exact(s, p, 1) IN
    IF ~rb.ok THEN Fail("eof", rb.p)
    ELSE IF shift >= 64 /\ oc THEN Fail("panic", rb.p)
    ELSE LET cur == rb.v[1]
             ret1 == OrShl(ret, cur % 128, shift % 64)
         IN  IF cur < 128
             THEN Ok([val |-> ret1, nread |-> nread + 1], rb.p)
             ELSE read_varint_loop(s, rb.p, oc, ret1, shift + 7, nread + 1)

\* read_varint_with_nread: v.val is the i64 read, v.nread the bytes it took.
read_varint_with_nread(s, p, oc) ==
    read_varint_loop(s, p, oc, I64Zero, 0, 0)

\* read_varint: the value alone.
read_varint(s, p, oc) ==
    LET r == read_varint_with_nread(s, p, oc) IN
    IF r.ok THEN Ok(r.v.val, r.p) ELSE r

\* Whether byte b is a UTF-8 continuation byte within lo..hi.
Cont(s, i, lo, hi) == i <= Len(s) /\ s[i] >= lo /\ s[i] <= hi

RECURSIVE from_utf8_ok(_, _)
\* Whether String::from_utf8 accepts the bytes of s from index i on.
from_utf8_ok(s, i) ==
    IF i > Len(s) THEN TRUE
    ELSE LET b == s[i] IN
         IF b < 128 THEN from_utf8_ok(s, i + 1)
         ELSE IF b >= 194 /\ b <= 223
              THEN Cont(s, i + 1, 128, 191) /\ from_utf8_ok(s, i + 2)
         ELSE IF b >= 224 /\ b <= 239
              THEN /\ Cont(s, i + 1, IF b = 224 THEN 160 ELSE 128,
                                     IF b = 237 THEN 159 ELSE 191)
                   /\ Cont(s, i + 2, 128, 191)
                   /\ from_utf8_ok(s, i + 3)
         ELSE IF b >= 240 /\ b <= 244
              THEN /\ Cont(s, i + 1, IF b = 240 THEN 144 ELSE 128,
                                     IF b = 244 THEN 143 ELSE 191)
                   /\ Cont(s, i + 2, 128, 191)
                   /\ Cont(s, i + 3, 128, 191)
                   /\ from_utf8_ok(s, i + 4)
         ELSE FALSE

\* read_varint_string_with_nread: v.str is the string, v.nread the bytes read
\* for it (the length VarInt and the content).  A negative length fails the
\* usize conversion; a length beyond the model's integers asks for more
\* bytes than any stream of the model holds.
read_varint_string_with_nread(s, p, oc) ==
    LET l == read_varint_with_nread(s, p, oc) IN
    IF ~l.ok THEN l
    ELSE IF I64IsNegative(l.v.val) THEN Fail("panic", l.p)
    ELSE IF ~I64IsSmall(l.v.val) THEN Fail("eof", Len(s))
    ELSE LET len == I64ToInt(l.v.val)
             vs == read_exact(s, l.p, len)
         IN  IF ~vs.ok THEN vs
             ELSE IF ~from_utf8_ok(vs.v, 1) THEN Fail("panic", vs.p)
             ELSE Ok([str |-> vs.v, nread |-> len + l.v.nread], vs.p)

\* read_varint_string: the string alone.
read_varint_string(s, p, oc) ==
    LET r == read_varint_string_with_nread(s, p, oc) IN
    IF r.ok THEN Ok(r.v.str, r.p) ELSE r

\* read_ushort: u16 big-endian.
read_ushort(s, p) ==
    LET r == read_exact(s, p, 2) IN
    IF r.ok THEN Ok(UnsignedFromBe(r.v), r.p) ELSE r

\* read_ushort_string: a u16 length, then that many bytes of UTF-8.
read_ushort_string(s, p) ==
    LET l == read_ushort(s, p) IN
    IF ~l.ok THEN l
    ELSE LET vs == read_exact(s, l.p, l.v) IN
         IF ~vs.ok THEN vs
         ELSE IF ~from_utf8_ok(vs.v, 1) THEN Fail("panic", vs.p)
         ELSE Ok(vs.v, vs.p)

\* read_short / read_int: i16 / i32 big-endian.
read_short(s, p) ==
    LET r == read_exact(s, p, 2) IN
    IF r.ok THEN Ok(SignedFromBe(r.v), r.p) ELSE r

read_int(s, p) ==
    LET r == read_exact(s, p, 4) IN
    IF r.ok THEN Ok(SignedFromBe(r.v), r.p) ELSE r

\* read_long: i64 big-endian.
read_long(s, p) ==
    LET r == read_exact(s, p, 8) IN
    IF r.ok THEN Ok(I64FromBeBytes(r.v), r.p) ELSE r

\* read_byte: i8.
read_byte(s, p) ==
    LET r == read_exact(s, p, 1) IN
    IF r.ok THEN Ok(SignedFromBe(r.v), r.p) ELSE r

\* read_ubyte: u8.
read_ubyte(s, p) ==
    LET r == read_exact(s, p, 1) IN
    IF r.ok THEN Ok(r.v[1], r.p) ELSE r

\* read_float / read_double: the value is kept as its IEEE-754 bit pattern.
read_float(s, p) ==
    LET r == read_exact(s, p, 4) IN
    IF r.ok THEN Ok(BitsFromBeBytes(r.v), r.p) ELSE r

read_double(s, p) ==
    LET r == read_exact(s, p, 8) IN
    IF r.ok THEN Ok(BitsFromBeBytes(r.v), r.p) ELSE r

\* read_bool: 0 or 1, anything else panics ("bad bool").
read_bool(s, p) ==
    LET r == read_ubyte(s, p) IN
    IF ~r.ok THEN r
    ELSE IF r.v = 0 THEN Ok(FALSE, r.p)
    ELSE IF r.v = 1 THEN Ok(TRUE, r.p)
    ELSE Fail("panic", r.p)

\* read_uuid: u128 big-endian, kept as its 128 bits.
read_uuid(s, p) ==
    LET r == read_exact(s, p, 16) IN
    IF r.ok THEN Ok(BitsFromBeBytes(r.v), r.p) ELSE r

\* ------------------------------------------------------------------------
\* Primitive writes (proto.rs).  Each gives the bytes it hands to its
\* writer; into the scratch Vec every write is taken whole.
\* ------------------------------------------------------------------------

\* write_ubyte.
write_ubyte(byte) == <<byte>>

\* write_ibyte: i8::to_be_bytes.
write_ibyte(byte) == IntToBeBytes(byte, 1)

\* u64 >> 7.
\* A shift right by eight bits instead of seven.
\* VarintRoundTrips tells the two apart.
Shr8(b) == [i \in 1..64 |-> IF i + 8 <= 64 THEN b[i + 8] ELSE 0]

Shr7(b) == [i \in 1..64 |-> IF i + 7 <= 64 THEN b[i + 7] ELSE 0]

RECURSIVE write_varint(_)
\* write_varint of an i64, reinterpreted as u64.
write_varint(int) ==
    IF \A i \in 8..64 : int[i] = 0
    THEN write_ubyte(SumBits(int, 0, 7))
    ELSE write_ubyte(SumBits(int, 0, 6) + 128) \o write_varint(Shr7(int))

\* write_short / write_ushort / write_int: to_be_bytes.
write_short(short) == IntToBeBytes(short, 2)

write_ushort(ushort) == IntToBeBytes(ushort, 2)

write_int(int) == IntToBeBytes(int, 4)

\* write_long: i64::to_be_bytes.
write_long(long) == I64ToBeBytes(long)

\* write_float / write_double, of the bit pattern.
write_float(x) == BitsToBeBytes(x)

write_double(x) == BitsToBeBytes(x)

\* write_uuid: u128::to_be_bytes.
write_uuid(uuid) == BitsToBeBytes(uuid)

\* write_bool: b as u8.
write_bool(b) == write_ubyte(IF b THEN 1 ELSE 0)

\* write_string: a VarInt byte length, then the bytes.
write_string(str) == write_varint(I64FromInt(Len(str))) \o str

\* A write_ushort_string whose length is little-endian.
\* ReadThenWriteIsIdentity tells the two apart.
write_ushort_string_le(str) == <<Len(str) % 256, Len(str) \div 256>> \o str

\* write_ushort_string: the length must fit a u16, else try_into panics;
\* the model's strings are far shorter.
write_ushort_string(str) == write_ushort(Len(str)) \o str

\* ------------------------------------------------------------------------
\* i64 subtraction at its true width.
\* ------------------------------------------------------------------------

RECURSIVE SubBits(_, _, _, _)
\* Bits i..64 of a - b given the borrow into bit i.
SubBits(a, b, i, borrow) ==
    IF i > 64 THEN <<>>
    ELSE LET d == (a[i] + b[i] + borrow) % 2
             nb == IF a[i] - b[i] - borrow < 0 THEN 1 ELSE 0
         IN  <<d>> \o SubBits(a, b, i + 1, nb)

\* a.wrapping_sub(b).
I64WrappingSub(a, b) == SubBits(a, b, 1, 0)

\* Whether a - b overflows i64: the operands differ in sign and the result's
\* sign is not a's.
I64SubOverflows(a, b) ==
    a[64] # b[64] /\ I64WrappingSub(a, b)[64] # a[64]

\* ------------------------------------------------------------------------
\* PacketStream::next_packet.
\* ------------------------------------------------------------------------

States == {"Handshaking", "Login", "Config", "Play"}

NoPacket == [kind |-> "None"]

\* A match whose LoginAck arm is `(0x03, _)`: id 0x03 is taken in every
\* state.  UnknownPairIsRefused tells the two apart.
MatchArmAnyState(packid, state) ==
    IF packid = I64Three THEN "LoginAck"
    ELSE IF packid = I64Zero /\ state = "Handshaking" THEN "Handshake"
    ELSE IF packid = I64Zero /\ state = "Login" THEN "LoginStart"
    ELSE IF packid = I64One /\ state = "Config" THEN "PluginMessageConfig"
    ELSE IF packid = I64Zero /\ state = "Config" THEN "ClientInfoConfig"
    ELSE IF packid = I64Two /\ state = "Config" THEN "FinishConfig"
    ELSE "unknown"

\* A match with one more arm, (0x03, State::Play), that is the LoginAck arm.
\* PlayIsTerminal tells the two apart.
MatchArmInPlay(packid, state) ==
    IF packid = I64Zero /\ state = "Handshaking" THEN "Handshake"
    ELSE IF packid = I64Zero /\ state = "Login" THEN "LoginStart"
    ELSE IF packid = I64Three /\ state = "Login" THEN "LoginAck"
    ELSE IF packid = I64One /\ state = "Config" THEN "PluginMessageConfig"
    ELSE IF packid = I64Zero /\ state = "Config" THEN "ClientInfoConfig"
    ELSE IF packid = I64Two /\ state = "Config" THEN "FinishConfig"
    ELSE IF packid = I64Three /\ state = "Play" THEN "LoginAck"
    ELSE "unknown"

\* The arm of `match (packid, self.state)` that is taken.
MatchArm(packid, state) ==
    IF packid = I64Zero /\ state = "Handshaking" THEN "Handshake"
    ELSE IF packid = I64Zero /\ state = "Login" THEN "LoginStart"
    ELSE IF packid = I64Three /\ state = "Login" THEN "LoginAck"
    ELSE IF packid = I64One /\ state = "Config" THEN "PluginMessageConfig"
    ELSE IF packid = I64Zero /\ state = "Config" THEN "ClientInfoConfig"
    ELSE IF packid = I64Two /\ state = "Config" THEN "FinishConfig"
    ELSE "unknown"

\* What an arm gives back: the packet, the state it leaves and the offset,
\* or the failure that ended it (the state is then the one it had).
ArmOk(packet, state, p) ==
    [ok |-> TRUE, why |-> "ok", packet |-> packet, state |-> state, p |-> p]

\* A failure that leaves Handshaking for Login all the same.
\* FailedCallKeepsState tells the two apart.
ArmFailAfterTransition(r, state) ==
    [ok |-> FALSE, why |-> r.why, packet |-> NoPacket,
     state |-> IF state = "Handshaking" THEN "Login" ELSE state, p |-> r.p]

ArmFail(r, state) ==
    [ok |-> FALSE, why |-> r.why, packet |-> NoPacket, state |-> state, p |-> r.p]

\* A match whose last arm takes every other value as well.
\* BadEnumIsRefused tells the two apart.
MatchVarintLenient(r, first, names) ==
    IF ~r.ok THEN r
    ELSE IF \E i \in 1..Len(names) : r.v = I64FromInt(first + i - 1)
    THEN Ok(names[CHOOSE i \in 1..Len(names) : r.v = I64FromInt(first + i - 1)],
            r.p)
    ELSE Ok(names[Len(names)], r.p)

\* `match read_varint(..) { first => names[1], first + 1 => names[2], ..,
\* x => panic!(..) }` applied to the result r of the read.
MatchVarint(r, first, names) ==
    IF ~r.ok THEN r
    ELSE IF \E i \in 1..Len(names) : r.v = I64FromInt(first + i - 1)
    THEN Ok(names[CHOOSE i \in 1..Len(names) : r.v = I64FromInt(first + i - 1)],
            r.p)
    ELSE Fail("panic", r.p)

\* One `let field = read_...(&mut self.r)` of an arm, by the reader it calls.
ReadField(reader, s, p, oc) ==
    CASE reader = "read_varint" -> read_varint(s, p, oc)
      [] reader = "read_varint_string" -> read_varint_string(s, p, oc)
      [] reader = "read_ushort" -> read_ushort(s, p)
      [] reader = "read_uuid" -> read_uuid(s, p)
      [] reader = "read_byte" -> read_byte(s, p)
      [] reader = "read_ubyte" -> read_ubyte(s, p)
      [] reader = "read_bool" -> read_bool(s, p)
      [] reader = "HandshakeNextState" ->
            MatchVarint(read_varint(s, p, oc), 1, <<"Status", "Login">>)
      [] reader = "ChatMode" ->
            MatchVarint(read_varint(s, p, oc), 0,
                        <<"Enabled", "CommandsOnly", "Hidden">>)
      [] reader = "MainHand" ->
            MatchVarint(read_varint(s, p, oc), 0, <<"Left", "Right">>)

RECURSIVE ReadFields(_, _, _, _, _)
\* The reads of an arm in the order of the code, each unwrapped before the
\* next begins: fields is the sequence of <<field name, reader>>, acc the
\* packet so far.
ReadFields(fields, s, p, oc, acc) ==
    IF fields = <<>> THEN Ok(acc, p)
    ELSE LET f == ReadField(fields[1][2], s, p, oc) IN
         IF ~f.ok THEN f
         ELSE ReadFields(Tail(fields), s, f.p, oc, acc @@ (fields[1][1] :> f.v))

\* The end of an arm whose reads gave f: the packet and the state `after`.
Arm(f, state, after) ==
    IF ~f.ok THEN ArmFail(f, state) ELSE ArmOk(f.v, after, f.p)

\* A Handshake arm whose next_state is matched as a MainHand is: 0 or 1,
\* and 2 panics.
\* HandshakeDecodesForStatusAndLogin tells the two apart.
HandshakeArmLoginOnly(s, p, oc, state) ==
    Arm(ReadFields(<< <<"protocol_version", "read_varint">>,
                      <<"server_addr", "read_varint_string">>,
                      <<"server_port", "read_ushort">>,
                      <<"next_state", "MainHand">> >>,
                   s, p, oc, [kind |-> "Handshake"]),
        state, "Login")

\* (0x00, State::Handshaking)
HandshakeArm(s, p, oc, state) ==
    Arm(ReadFields(<< <<"protocol_version", "read_varint">>,
                      <<"server_addr", "read_varint_string">>,
                      <<"server_port", "read_ushort">>,
                      <<"next_state", "HandshakeNextState">> >>,
                   s, p, oc, [kind |-> "Handshake"]),
        state, "Login")

\* A LoginStart arm that sets self.state = State::Config.
\* StateChangesOnlyByThreePackets tells the two apart.
LoginStartArmAdvances(s, p, oc, state) ==
    Arm(ReadFields(<< <<"name", "read_varint_string">>,
                      <<"player_uuid", "read_uuid">> >>,
                   s, p, oc, [kind |-> "LoginStart"]),
        state, "Config")

\* (0x00, State::Login)
LoginStartArm(s, p, oc, state) ==
    Arm(ReadFields(<< <<"name", "read_varint_string">>,
                      <<"player_uuid", "read_uuid">> >>,
                   s, p, oc, [kind |-> "LoginStart"]),
        state, state)

\* A LoginAck arm without `self.state = State::Config`.
\* LoginFlowStates tells the two apart.
LoginAckArmStays(s, p, oc, state) == ArmOk([kind |-> "LoginAck"], state, p)

\* (0x03, State::Login)
LoginAckArm(s, p, oc, state) == ArmOk([kind |-> "LoginAck"], "Config", p)

\* A PluginMessage arm whose data is one byte shorter than data_len.
\* PluginMessageDataFillsTheFrame tells the two apart.
PluginMessageConfigArmOneShort(s, p, oc, state, packet_tail_len) ==
    Arm(Then(read_varint_string_with_nread(s, p, oc), LAMBDA ch :
            IF I64IsNegative(I64WrappingSub(packet_tail_len, I64FromInt(ch.v.nread + 1)))
            THEN Fail("panic", ch.p)
            ELSE Then(read_exact(s, ch.p,
                          I64ToInt(I64WrappingSub(packet_tail_len,
                                                  I64FromInt(ch.v.nread + 1)))),
                      LAMBDA data :
                        Ok([kind |-> "PluginMessageConfig",
                            channel |-> ch.v.str, data |-> data.v],
                           data.p))),
        state, state)

\* (0x01, State::Config); packet_tail_len is the i64 that next_packet
\* computed.  `data_len.try_into().unwrap()` fails on a negative data_len;
\* one beyond the model's integers asks for more bytes than any stream of
\* the model holds.
PluginMessageConfigArm(s, p, oc, state, packet_tail_len) ==
    Arm(Then(read_varint_string_with_nread(s, p, oc), LAMBDA ch :
            IF oc /\ I64SubOverflows(packet_tail_len, I64FromInt(ch.v.nread))
            THEN Fail("panic", ch.p)
            ELSE LET data_len ==
                        I64WrappingSub(packet_tail_len, I64FromInt(ch.v.nread))
                 IN  IF I64IsNegative(data_len) THEN Fail("panic", ch.p)
                     ELSE IF ~I64IsSmall(data_len) THEN Fail("eof", Len(s))
                     ELSE Then(read_exact(s, ch.p, I64ToInt(data_len)),
                               LAMBDA data :
                                 Ok([kind |-> "PluginMessageConfig",
                                     channel |-> ch.v.str, data |-> data.v],
                                    data.p))),
        state, state)

\* (0x00, State::Config)
ClientInfoConfigArm(s, p, oc, state) ==
    Arm(ReadFields(<< <<"locale", "read_varint_string">>,
                      <<"view_distance", "read_byte">>,
                      <<"chat_mode", "ChatMode">>,
                      <<"chat_colors", "read_bool">>,
                      <<"displayed_skin_parts", "read_ubyte">>,
                      <<"main_hand", "MainHand">>,
                      <<"enable_text_filtering", "read_bool">>,
                      <<"allow_server_listings", "read_bool">> >>,
                   s, p, oc, [kind |-> "ClientInfoConfig"]),
        state, state)

\* A FinishConfig arm that sets self.state = State::Login.
\* StateNeverMovesBackward tells the two apart.
FinishConfigArmBack(s, p, oc, state) ==
    ArmOk([kind |-> "FinishConfig"], "Login", p)

\* (0x02, State::Config)
FinishConfigArm(s, p, oc, state) == ArmOk([kind |-> "FinishConfig"], "Play", p)

\* The frame header as next_packet read it, kept for the properties:
\* whether the length and the id were read, their values and sizes.
NoHeader ==
    [len_ok |-> FALSE, id_ok |-> FALSE, len_field |-> I64Zero,
     len_nread |-> 0, packid |-> I64Zero, id_nread |-> 0]

\* The header once the length (lf) and the id (id) are read.
Header(lf, id) ==
    [len_ok |-> lf.ok,
     id_ok |-> lf.ok /\ id.ok,
     len_field |-> IF lf.ok THEN lf.v.val ELSE I64Zero,
     len_nread |-> IF lf.ok THEN lf.v.nread ELSE 0,
     packid |-> IF lf.ok /\ id.ok THEN id.v.val ELSE I64Zero,
     id_nread |-> IF lf.ok /\ id.ok THEN id.v.nread ELSE 0]

\* `match (packid, self.state) { .. }`, the arms by name.
next_packet_match(arm, s, p, oc, state, packet_tail_len) ==
    CASE arm = "Handshake" -> HandshakeArm(s, p, oc, state)
      [] arm = "LoginStart" -> LoginStartArm(s, p, oc, state)
      [] arm = "LoginAck" -> LoginAckArm(s, p, oc, state)
      [] arm = "PluginMessageConfig" ->
            PluginMessageConfigArm(s, p, oc, state, packet_tail_len)
      [] arm = "ClientInfoConfig" -> ClientInfoConfigArm(s, p, oc, state)
      [] arm = "FinishConfig" -> FinishConfigArm(s, p, oc, state)
      [] OTHER -> ArmFail(Fail("panic", p), state)

\* next_packet from `let packet_tail_len = packet_len_field - packidnread`
\* on: lf and id are the two header reads.
next_packet_tail(lf, id, s, state, oc) ==
    IF ~id.ok THEN ArmFail(id, state)
    ELSE IF oc /\ I64SubOverflows(lf.v.val, I64FromInt(id.v.nread))
    THEN ArmFail(Fail("panic", id.p), state)
    ELSE next_packet_match(MatchArm(id.v.val, state), s, id.p, oc, state,
                           I64WrappingSub(lf.v.val, I64FromInt(id.v.nread)))

\* next_packet after the read of packet_len_field (lf).
next_packet_id(lf, id, s, state, oc) ==
    [hdr |-> Header(lf, id)] @@
        (IF ~lf.ok THEN ArmFail(lf, state)
         ELSE next_packet_tail(lf, id, s, state, oc))

\* The read of (packid, packidnread), which takes place only if the length
\* was read.
next_packet_len(lf, s, state, oc) ==
    next_packet_id(lf,
                   IF lf.ok THEN read_varint_with_nread(s, lf.p, oc) ELSE lf,
                   s, state, oc)

\* next_packet on a reader holding the bytes s, in connection state `state`:
\* ok, the packet, the state afterwards, the bytes consumed (p) and the
\* header read.
next_packet(s, state, oc) ==
    next_packet_len(read_varint_with_nread(s, 0, oc), s, state, oc)

\* ------------------------------------------------------------------------
\* NBT (nbt.rs).  A CompoundNbt is [name, props], props a function from the
\* property names to values (the HashMap).  An Nbt is [tag, lt, v]: tag the
\* variant, v its payload and, for a List, lt the NbtList variant.
\* ------------------------------------------------------------------------

\* CompoundNbt::new
CompoundNbt_new(name) == [name |-> name, props |-> <<>>]

\* A set that keeps the value a name already has.
\* LatestSetWins tells the two apart.
CompoundNbt_set_first_wins(c, name, value) ==
    [c EXCEPT !.props =
        [k \in (DOMAIN c.props) \cup {name} |->
            IF k \in DOMAIN c.props THEN c.props[k] ELSE value]]

\* CompoundNbt::set: HashMap::insert, the latest value of a name wins.
CompoundNbt_set(c, name, value) ==
    [c EXCEPT !.props =
        [k \in (DOMAIN c.props) \cup {name} |->
            IF k = name THEN value ELSE c.props[k]]]

\* CompoundNbt::get: the value, or None.
None == [tag |-> "None", lt |-> "", v |-> 0]

CompoundNbt_get(c, name) ==
    IF name \in DOMAIN c.props THEN c.props[name] ELSE None

Nbt(tag, v) == [tag |-> tag, lt |-> "", v |-> v]

NbtList(lt, v) == [tag |-> "List", lt |-> lt, v |-> v]

\* `tt as i8` of enum TagType.
TagId(tt) ==
    CASE tt = "End" -> 0 [] tt = "Byte" -> 1 [] tt = "Short" -> 2
      [] tt = "Int" -> 3 [] tt = "Long" -> 4 [] tt = "Float" -> 5
      [] tt = "Double" -> 6 [] tt = "ByteArray" -> 7 [] tt = "String" -> 8
      [] tt = "List" -> 9 [] tt = "Compound" -> 10 [] tt = "IntArray" -> 11
      [] tt = "LongArray" -> 12

TagTypes ==
    {"End", "Byte", "Short", "Int", "Long", "Float", "Double", "ByteArray",
     "String", "List", "Compound", "IntArray", "LongArray"}

\* write_tagtype
write_tagtype(tt) == write_ibyte(TagId(tt))

\* The payload bytes of one scalar or string element.
WriteElem(kind, x) ==
    CASE kind = "Byte" -> write_ibyte(x)
      [] kind = "Short" -> write_short(x)
      [] kind = "Int" -> write_int(x)
      [] kind = "Long" -> write_long(x)
      [] kind = "Float" -> write_float(x)
      [] kind = "Double" -> write_double(x)
      [] kind = "String" -> write_ushort_string(x)

\* An i32 length, then the elements: `write_int(len); for x in ... { write }`.
WriteElems(kind, xs) ==
    write_int(Len(xs)) \o Concat([i \in 1..Len(xs) |-> WriteElem(kind, xs[i])])

RECURSIVE write_compound_nbt_no_tagtype(_)
RECURSIVE write_compound_nbt(_)
RECURSIVE WriteProps(_)
RECURSIVE WriteProp(_, _)
RECURSIVE WriteCompoundElems(_)

\* write_compound_nbt_no_tagtype: the name, the properties in the order the
\* HashMap iterates them, End.  The iteration order is not fixed, so the
\* operator gives the set of byte strings the call may write.
write_compound_nbt_no_tagtype(nbt) ==
    { write_ushort_string(nbt.name) \o body \o write_tagtype("End") :
        body \in WriteProps(nbt.props) }

\* write_compound_nbt
write_compound_nbt(nbt) ==
    { write_tagtype("Compound") \o x : x \in write_compound_nbt_no_tagtype(nbt) }

\* The loop `for (prop_name, prop_value) in nbt.props()`, in every order.
WriteProps(props) ==
    IF DOMAIN props = {} THEN { <<>> }
    ELSE UNION { { first \o rest :
                     first \in WriteProp(k, props[k]),
                     rest \in WriteProps([j \in (DOMAIN props) \ {k} |-> props[j]]) } :
                 k \in DOMAIN props }

\* The elements of NbtList::Compound, each by write_compound_nbt_no_tagtype.
WriteCompoundElems(cs) ==
    IF Len(cs) = 0 THEN { <<>> }
    ELSE { first \o rest : first \in write_compound_nbt_no_tagtype(Head(cs)),
                           rest \in WriteCompoundElems(Tail(cs)) }

\* One arm of `match prop_value`.
WriteProp(prop_name, prop_value) ==
    LET tag == prop_value.tag
        v == prop_value.v
        hdr == write_tagtype(tag) \o write_ushort_string(prop_name)
    IN
    CASE tag = "Compound" -> write_compound_nbt(v)
      [] tag \in {"String", "Byte", "Short", "Int", "Long", "Float", "Double"} ->
            { hdr \o WriteElem(tag, v) }
      [] tag = "List" /\ prop_value.lt = "Compound" ->
            { hdr \o write_tagtype("Compound") \o write_int(Len(v)) \o elems :
                elems \in WriteCompoundElems(v) }
      [] tag = "List" /\ prop_value.lt # "Compound" ->
            { hdr \o write_tagtype(prop_value.lt) \o WriteElems(prop_value.lt, v) }
      [] tag = "ByteArray" -> { hdr \o WriteElems("Byte", v) }
      [] tag = "IntArray" -> { hdr \o WriteElems("Int", v) }
      [] tag = "LongArray" -> { hdr \o WriteElems("Long", v) }

\* read_tagtype: an i8, 0..12 or panic ("bad tag type").
read_tagtype(s, p) ==
    Then(read_byte(s, p), LAMBDA b :
        IF \E tt \in TagTypes : TagId(tt) = b.v
        THEN Ok(CHOOSE tt \in TagTypes : TagId(tt) = b.v, b.p)
        ELSE Fail("panic", b.p))

RECURSIVE read_compound(_, _)
RECURSIVE read_compound_loop(_, _, _)
RECURSIVE read_nbt(_, _, _)
RECURSIVE ReadElems(_, _, _, _, _)

\* One element of an array or list: a scalar, a string or, for a list of
\* compounds, a whole Nbt::read_compound.
ReadElem(s, p, kind) ==
    CASE kind = "Byte" -> read_byte(s, p)
      [] kind = "Short" -> read_short(s, p)
      [] kind = "Int" -> read_int(s, p)
      [] kind = "Long" -> read_long(s, p)
      [] kind = "Float" -> read_float(s, p)
      [] kind = "Double" -> read_double(s, p)
      [] kind = "String" -> read_ushort_string(s, p)
      [] kind = "Compound" -> read_compound(s, p)

\* `for _ in 0..len { arr.push(read(r)) }`
ReadElems(s, p, kind, n, arr) ==
    IF n <= 0 THEN Ok(arr, p)
    ELSE Then(ReadElem(s, p, kind), LAMBDA e :
            ReadElems(s, e.p, kind, n - 1, Append(arr, e.v)))

\* ByteArray, IntArray, LongArray: an i32 length that must not be negative.
ReadArray(s, p, tag, kind) ==
    Then(read_int(s, p), LAMBDA len :
        IF len.v < 0 THEN Fail("panic", len.p)
        ELSE Then(ReadElems(s, len.p, kind, len.v, <<>>), LAMBDA arr :
                Ok(Nbt(tag, arr.v), arr.p)))

\* TagType::List: the element tag id, the i32 length, then the elements of
\* the eight element types that are implemented (a negative length fails
\* the conversion to usize); any other element type is todo!().
ReadList(s, p) ==
    Then(read_tagtype(s, p), LAMBDA list_type :
    Then(read_int(s, list_type.p), LAMBDA len :
        IF list_type.v \notin {"String", "Compound", "Int", "Long", "Short",
                               "Byte", "Double", "Float"}
        THEN Fail("panic", len.p)
        ELSE IF len.v < 0 THEN Fail("panic", len.p)
        ELSE Then(ReadElems(s, len.p, list_type.v, len.v, <<>>), LAMBDA arr :
                Ok(NbtList(list_type.v, arr.v), arr.p))))

\* read_nbt: the payload of a tag.
read_nbt(s, p, tag) ==
    CASE tag \in {"Byte", "Short", "Int", "Long", "Float", "Double", "String"} ->
            Then(ReadElem(s, p, tag), LAMBDA e : Ok(Nbt(tag, e.v), e.p))
      [] tag = "ByteArray" -> ReadArray(s, p, tag, "Byte")
      [] tag = "IntArray" -> ReadArray(s, p, tag, "Int")
      [] tag = "LongArray" -> ReadArray(s, p, tag, "Long")
      [] tag = "List" -> ReadList(s, p)
      [] tag = "Compound" ->
            Then(read_compound(s, p), LAMBDA c : Ok(Nbt(tag, c.v), c.p))
      [] tag = "End" -> Fail("panic", p)

\* The loop of Nbt::read_compound: a tag id, End returns, otherwise the
\* property's name and payload, and compound.set.
read_compound_loop(s, p, compound) ==
    Then(read_tagtype(s, p), LAMBDA tagid :
        IF tagid.v = "End" THEN Ok(compound, tagid.p)
        ELSE Then(read_ushort_string(s, tagid.p), LAMBDA elem_name :
             Then(read_nbt(s, elem_name.p, tagid.v), LAMBDA elem :
                read_compound_loop(s, elem.p,
                    CompoundNbt_set(compound, elem_name.v, elem.v)))))

\* Nbt::read_compound: the tag id must be Compound, then the name, then the
\* properties.
read_compound(s, p) ==
    Then(read_tagtype(s, p), LAMBDA ttype :
        IF ttype.v # "Compound" THEN Fail("panic", ttype.p)
        ELSE Then(read_ushort_string(s, ttype.p), LAMBDA compound_name :
                read_compound_loop(s, compound_name.p,
                                   CompoundNbt_new(compound_name.v))))

\* ------------------------------------------------------------------------
\* Composite writes (proto.rs).
\* ------------------------------------------------------------------------

\* BitSet::with_num_bits: n.div_ceil(64) longs, all zero.
BitSet_with_num_bits(n) ==
    [longs |-> [i \in 1..((n + 63) \div 64) |-> I64Zero]]

\* BitSet::compute_idx: the assertion, then (bit_idx / 64, bit_idx % 64).
BitSet_in_range(bs, bit_idx) == bit_idx < 64 * Len(bs.longs)

\* A set whose shifted one cannot reach bit 63 of a long.
\* BitSetGetIsMembership tells the two apart.
BitSet_set_below_63(bs, bit_idx) ==
    [bs EXCEPT !.longs[(bit_idx \div 64) + 1] =
        IF bit_idx % 64 = 63 THEN @ ELSE OrShl(@, 1, bit_idx % 64)]

\* BitSet::set: longs[long_idx] |= 1 << bit_idx.
BitSet_set(bs, bit_idx) ==
    [bs EXCEPT !.longs[(bit_idx \div 64) + 1] = OrShl(@, 1, bit_idx % 64)]

\* BitSet::get: longs[long_idx] & (1 << bit_idx) != 0.
BitSet_get(bs, bit_idx) == bs.longs[(bit_idx \div 64) + 1][(bit_idx % 64) + 1] = 1

\* `gm as u8` of enum GameMode.
GameModeId(gm) ==
    CASE gm = "Survival" -> 0 [] gm = "Creative" -> 1
      [] gm = "Adventure" -> 2 [] gm = "Spectator" -> 3

\* write_game_mode
write_game_mode(gm) == write_ubyte(GameModeId(gm))

\* write_position: the three assertions, then the packed word big-endian.
\* `x & mask` of a sign-extended coordinate is x modulo 2^26 (2^12 for y).
write_position(pos) ==
    LET x == pos.x
        z == pos.z
        y == pos.y
        packed == [i \in 1..64 |->
                     IF i - 1 >= 38 THEN BitOf(x % Pow2(26), i - 1 - 38)
                     ELSE IF i - 1 >= 12 THEN BitOf(z % Pow2(26), i - 1 - 12)
                     ELSE BitOf(y % Pow2(12), i - 1)]
    IN  IF x # x % Pow2(26) \/ z # z % Pow2(26) \/ y # y % Pow2(12)
        THEN [ok |-> FALSE, bytes |-> <<>>]
        ELSE [ok |-> TRUE, bytes |-> I64ToBeBytes(packed)]

\* write_bitset: the number of longs as a VarInt, then each long.
write_bitset(bs) ==
    write_varint(I64FromInt(Len(bs.longs)))
        \o Concat([i \in 1..Len(bs.longs) |-> write_long(bs.longs[i])])

\* write_block_entity; the packed byte is ((x as i8 & 15) << 4) | (z as i8 & 15)
\* as an i8, the embedded compound in each order it may be written.
write_block_entity(bent) ==
    LET packed == (((bent.x % 16) * 16) % 256) + (bent.z % 16)
        asi8 == IF packed >= 128 THEN packed - 256 ELSE packed
    IN  { write_ibyte(asi8) \o write_short(bent.y) \o write_varint(bent.tipe) \o nbt :
            nbt \in write_compound_nbt(bent.data) }

RECURSIVE WriteBlockEntities(_)
WriteBlockEntities(bents) ==
    IF Len(bents) = 0 THEN { <<>> }
    ELSE { first \o rest : first \in write_block_entity(Head(bents)),
                           rest \in WriteBlockEntities(Tail(bents)) }

\* ------------------------------------------------------------------------
\* PacketStream::send: the match that fills the scratch buffer `buf`.
\* Each arm gives ok and the set of buffers it may build (more than one only
\* through a compound's iteration order), or ok = FALSE when it panics.
\* ------------------------------------------------------------------------

Built(bufs) == [ok |-> TRUE, bufs |-> bufs]

BuildPanics == [ok |-> FALSE, bufs |-> {}]

\* The bytes of r#"{{text:"{reason}"}}"#
JsonText(reason) == <<123, 116, 101, 120, 116, 58, 34>> \o reason \o <<34, 125>>

DisconnectLoginBuf(packet) ==
    Built({ write_varint(I64Zero) \o JsonText(packet.reason) })

WriteLoginSuccessProp(prop) ==
    write_string(prop.name) \o write_string(prop.value)
        \o (IF Len(prop.signature) > 0
            THEN write_bool(TRUE) \o write_string(prop.signature[1])
            ELSE write_bool(FALSE))

LoginSuccessBuf(packet) ==
    Built({ write_varint(I64Two)
            \o write_uuid(packet.uuid)
            \o write_string(packet.username)
            \o write_varint(I64FromInt(Len(packet.props)))
            \o Concat([i \in 1..Len(packet.props) |->
                          WriteLoginSuccessProp(packet.props[i])]) })

LoginPlayBuf(packet) ==
    LET front ==
            write_varint(I64FromInt(41))
            \o write_int(packet.entity_id)
            \o write_bool(packet.is_hardcore)
            \o write_varint(I64FromInt(Len(packet.dimension_names)))
            \o Concat([i \in 1..Len(packet.dimension_names) |->
                          write_string(packet.dimension_names[i])])
            \o write_varint(packet.max_players)
            \o write_varint(packet.view_distance)
            \o write_varint(packet.simulation_distance)
            \o write_bool(packet.reduced_debug_info)
            \o write_bool(packet.enable_respawn_screen)
            \o write_bool(packet.do_limited_crafting)
            \o write_string(packet.dimension_type)
            \o write_string(packet.dimension_name)
            \o write_long(packet.hashed_seed)
            \o write_game_mode(packet.game_mode)
            \o (IF Len(packet.prev_game_mode) > 0
                THEN write_game_mode(packet.prev_game_mode[1])
                ELSE write_ibyte(-1))
            \o write_bool(packet.is_debug)
            \o write_bool(packet.is_superflat)
        pos == write_position(packet.death_info[1].location)
    IN  IF Len(packet.death_info) = 0
        THEN Built({ front \o write_bool(FALSE)
                     \o write_varint(packet.portal_cooldown) })
        ELSE IF ~pos.ok THEN BuildPanics
        ELSE Built({ front \o write_bool(TRUE)
                     \o write_string(packet.death_info[1].dimension)
                     \o pos.bytes
                     \o write_varint(packet.portal_cooldown) })

FinishConfigBuf(packet) == Built({ write_varint(I64Two) })

\* VarInt count, then per array VarInt(2048) and its bytes.
WriteLightArrays(arrs) ==
    write_varint(I64FromInt(Len(arrs)))
        \o Concat([i \in 1..Len(arrs) |->
                      write_varint(I64FromInt(2048))
                      \o Concat([j \in 1..Len(arrs[i]) |-> write_ibyte(arrs[i][j])])])

ChunkDataAndUpdateLightBuf(packet) ==
    Built({ write_varint(I64FromInt(37))
            \o write_int(packet.chunk_x)
            \o write_int(packet.chunk_z)
            \o heightmaps
            \o write_varint(I64FromInt(Len(packet.data)))
            \o Concat([i \in 1..Len(packet.data) |-> write_ibyte(packet.data[i])])
            \o write_varint(I64FromInt(Len(packet.block_entities)))
            \o bents
            \o write_bitset(packet.sky_light_mask)
            \o write_bitset(packet.block_light_mask)
            \o write_bitset(packet.empty_sky_light_mask)
            \o write_bitset(packet.empty_block_light_mask)
            \o WriteLightArrays(packet.sky_light_arrays)
            \o WriteLightArrays(packet.block_light_arrays) :
            heightmaps \in write_compound_nbt(packet.heightmaps),
            bents \in WriteBlockEntities(packet.block_entities) })

\* `match packet { ... }` of send.
send_build(packet) ==
    CASE packet.kind = "DisconnectLogin" -> DisconnectLoginBuf(packet)
      [] packet.kind = "LoginSuccess" -> LoginSuccessBuf(packet)
      [] packet.kind = "LoginPlay" -> LoginPlayBuf(packet)
      [] packet.kind = "FinishConfig" -> FinishConfigBuf(packet)
      [] packet.kind = "ChunkDataAndUpdateLight" -> ChunkDataAndUpdateLightBuf(packet)

\* A send whose match writes the packet id straight to self.w.
\* WriterUntouchedUntilBuilt tells the two apart.
send_build_id_to_writer(packet) ==
    CASE packet.kind = "DisconnectLogin" -> write_varint(I64Zero)
      [] packet.kind = "LoginSuccess" -> write_varint(I64Two)
      [] packet.kind = "LoginPlay" -> write_varint(I64FromInt(41))
      [] packet.kind = "FinishConfig" -> write_varint(I64Two)
      [] packet.kind = "ChunkDataAndUpdateLight" -> write_varint(I64FromInt(37))

\* What send writes to the real writer while it fills the scratch buffer:
\* nothing, every write of the match goes to `buf`.
send_build_direct(packet) == <<>>

\* A send that moves to Config once LoginSuccess is sent in Login.
\* SendKeepsState tells the two apart.
send_state_advances(packet, state) ==
    IF packet.kind = "LoginSuccess" /\ state = "Login" THEN "Config" ELSE state

\* The connection state after send: send assigns no field of self.
send_state(packet, state) == state

\* The length prefix send writes: write_varint(&mut self.w, buf.len()).
send_prefix(buf) == write_varint(I64FromInt(Len(buf)))

\* The byte counts one Write::write call on the real writer may accept of a
\* buffer of n >= 1 bytes: all of it, or only its first 1..MaxPartial bytes.
Accepts(n) == {n} \cup {k \in 1..MaxPartial : k <= n}

\* ------------------------------------------------------------------------
\* The inputs of the model: the frames a peer may put on the wire and the
\* packets the application may send.
\* ------------------------------------------------------------------------

\* A well-formed frame: the VarInt length of the body, then the body.
Frame(body) == write_varint(I64FromInt(Len(body))) \o body

\* The low bits of a u128.
U128FromInt(n) == [i \in 1..128 |-> IF i <= 31 THEN BitOf(n, i - 1) ELSE 0]

Uuid16 == <<1, 2, 3, 4, 5, 6, 7, 8, 9, 10, 11, 12, 13, 14, 15, 16>>

\* id 0x00, protocol_version 764, "localhost", port 25565, next_state ns.
HandshakeFrame(ns) ==
    Frame(<<0, 252, 5, 9, 108, 111, 99, 97, 108, 104, 111, 115, 116, 99, 221, ns>>)

\* id 0x00, name "Alex", a uuid.
LoginStartFrame == Frame(<<0, 4, 65, 108, 101, 120>> \o Uuid16)

\* id 0x00, a name that is not UTF-8, a uuid.
LoginStartBadUtf8Frame == Frame(<<0, 1, 255>> \o Uuid16)

LoginAckFrame == Frame(<<3>>)

\* id 0x00, locale "en", view_distance -8, chat_mode cm, chat_colors cc,
\* skin parts 0x7f, main_hand mh, text filtering 0, server listings 1.
ClientInfoConfigFrame(cm, cc, mh) ==
    Frame(<<0, 2, 101, 110, 248, cm, cc, 127, mh, 0, 1>>)

\* id 0x01, channel "b", two bytes of data.
PluginMessageFrame == Frame(<<1, 1, 98, 7, 8>>)

FinishConfigFrame == Frame(<<2>>)

\* A PluginMessage whose declared length ends inside the channel string.
PluginMessageShortFrame == <<2, 1, 1, 98>>

\* A LoginAck that declares three bytes: the id and two more.
LoginAckPaddedFrame == <<3, 3, 170, 187>>

\* FinishConfig with its id written as a two-byte VarInt.
FinishConfigLongIdFrame == <<2, 130, 0>>

\* A length VarInt of eleven bytes, then id 0x03.
LongLenFrame == <<128, 128, 128, 128, 128, 128, 128, 128, 128, 128, 1, 3>>

\* The six frames of the login flow, and the state each is to leave.
HappyFrames ==
    <<HandshakeFrame(2), LoginStartFrame, LoginAckFrame,
      ClientInfoConfigFrame(0, 1, 1), PluginMessageFrame, FinishConfigFrame>>

HappyStates == <<"Login", "Login", "Config", "Config", "Config", "Play">>

Frames ==
    { HappyFrames[i] : i \in 1..6 }
    \cup { HandshakeFrame(1), HandshakeFrame(3),
           LoginStartBadUtf8Frame,
           ClientInfoConfigFrame(2, 0, 0), ClientInfoConfigFrame(3, 1, 1),
           ClientInfoConfigFrame(0, 2, 1), ClientInfoConfigFrame(0, 1, 2),
           PluginMessageShortFrame, LoginAckPaddedFrame,
           FinishConfigLongIdFrame, LongLenFrame,
           Frame(<<0>>), Frame(<<1>>), Frame(<<4>>), <<5>> }

\* What the peer sends at once: one frame, or two frames back to back.
Segments ==
    Frames
    \cup { HandshakeFrame(2) \o LoginStartFrame,
           LoginAckFrame \o FinishConfigFrame,
           LoginAckPaddedFrame \o FinishConfigFrame }

\* Option<T>: None is the empty sequence, Some(v) the sequence of v alone.
NoneOpt == <<>>

Some(v) == <<v>>

IsSome(o) == Len(o) > 0

DisconnectLoginPacket == [kind |-> "DisconnectLogin", reason |-> <<98, 121, 101>>]

\* The LoginSuccess run_server sends, with and without properties.
LoginSuccessPacket(props) ==
    [kind |-> "LoginSuccess", uuid |-> U128FromInt(123),
     username |-> <<102, 111, 111, 98, 97, 114>>, props |-> props]

LoginSuccessProps ==
    << [name |-> <<110>>, value |-> <<118>>, signature |-> Some(<<115>>)],
       [name |-> <<109>>, value |-> <<>>, signature |-> NoneOpt] >>

FooBar == <<102, 111, 111, 58, 98, 97, 114>>

FooBaz == <<102, 111, 111, 58, 98, 97, 122>>

\* The LoginPlay run_server sends, with the death_info given.
LoginPlayPacket(death_info) ==
    [kind |-> "LoginPlay", entity_id |-> 1, is_hardcore |-> FALSE,
     dimension_names |-> <<FooBar>>, max_players |-> I64FromInt(456),
     view_distance |-> I64FromInt(111), simulation_distance |-> I64FromInt(222),
     reduced_debug_info |-> FALSE, enable_respawn_screen |-> TRUE,
     do_limited_crafting |-> FALSE, dimension_type |-> FooBaz,
     dimension_name |-> FooBar, hashed_seed |-> I64FromInt(999),
     game_mode |-> "Spectator", prev_game_mode |-> NoneOpt,
     is_debug |-> FALSE, is_superflat |-> FALSE,
     death_info |-> death_info, portal_cooldown |-> I64FromInt(5)]

DeathInfo(x, z, y) == Some([dimension |-> FooBar, location |-> [x |-> x, z |-> z, y |-> y]])

FinishConfigPacket == [kind |-> "FinishConfig"]

ChunkPacket ==
    [kind |-> "ChunkDataAndUpdateLight", chunk_x |-> -1, chunk_z |-> 2,
     heightmaps |-> CompoundNbt_set(CompoundNbt_new(<<>>), <<104>>,
                                    Nbt("LongArray", <<I64FromInt(-1)>>)),
     data |-> <<1, -1>>,
     block_entities |-> << [x |-> 15, z |-> 3, y |-> -2, tipe |-> I64FromInt(300),
                            data |-> CompoundNbt_new(<<101>>)] >>,
     sky_light_mask |-> BitSet_set(BitSet_with_num_bits(1), 63),
     block_light_mask |-> BitSet_with_num_bits(0),
     empty_sky_light_mask |-> BitSet_with_num_bits(65),
     empty_block_light_mask |-> BitSet_with_num_bits(0),
     sky_light_arrays |-> << >>,
     block_light_arrays |-> << >>]

OutPackets ==
    << DisconnectLoginPacket,
       LoginSuccessPacket(<<>>), LoginSuccessPacket(LoginSuccessProps),
       FinishConfigPacket,
       LoginPlayPacket(NoneOpt), LoginPlayPacket(DeathInfo(1, 2, 3)),
       LoginPlayPacket(DeathInfo(-1, 2, 3)),
       ChunkPacket >>

\* What the match of send makes of each of them.
OutBuilds == [i \in 1..Len(OutPackets) |-> send_build(OutPackets[i])]

\* The "State" column of the outbound packet table.
OutPacketState(kind) ==
    CASE kind \in {"DisconnectLogin", "LoginSuccess"} -> "Login"
      [] kind = "FinishConfig" -> "Config"
      [] kind \in {"LoginPlay", "ChunkDataAndUpdateLight"} -> "Play"

\* ------------------------------------------------------------------------
\* The state.
\* ------------------------------------------------------------------------

VARIABLES
    state,      \* PacketStream.state
    r,          \* PacketStream.r: the bytes received and not yet read
    eof,        \* whether the peer has closed its side of the stream
    oc,         \* whether the build checks arithmetic overflow (debug) or wraps
    pc,         \* "idle", "sending" (send has filled buf), "panicked"
    last,       \* what the latest next_packet call did
    happy,      \* how many calls so far each found the next frame of
                \* HappyFrames in front of the reader (-1: some call did not)
    cur,        \* the packet of the current or latest send call
    buf,        \* send's scratch buffer
    wcall,      \* the bytes the real writer took during that send call
    sendst,     \* "none", "built", "done", "build_panic", "write_panic"
    sendat,     \* the connection state when that send call began
    compound,   \* a CompoundNbt under construction
    nsets,      \* the CompoundNbt::set calls made on it
    rt,         \* the latest write_compound_nbt / read_compound round trip
    arg,        \* the arguments of the latest call of a codec function
    out         \* what that call gave

streamvars == <<state, r, eof, oc, pc, last, happy>>

sendvars == <<cur, buf, wcall, sendst, sendat>>

nbtvars == <<compound, nsets, rt>>

codecvars == <<arg, out>>

vars == <<state, r, eof, oc, pc, last, happy, cur, buf, wcall, sendst, sendat,
          compound, nsets, rt, arg, out>>

NoCall ==
    [called |-> FALSE, ok |-> FALSE, why |-> "none", kind |-> "None",
     packet |-> NoPacket, before |-> "Handshaking", after |-> "Handshaking",
     consumed |-> 0, hdr |-> NoHeader]

\* No codec function was called yet.
NoArg == [kind |-> "None"]

NoRoundTrip == [done |-> FALSE, bytes |-> <<>>, ok |-> FALSE, v |-> CompoundNbt_new(<<>>)]

\* PacketStream::new: state Handshaking; nothing read, nothing sent.
Init ==
    /\ state = "Handshaking"
    /\ r = <<>>
    /\ eof = FALSE
    /\ oc \in BOOLEAN
    /\ pc = "idle"
    /\ last = NoCall
    /\ happy = 0
    /\ cur = FinishConfigPacket
    /\ buf = <<>>
    /\ wcall = <<>>
    /\ sendst = "none"
    /\ sendat = "Handshaking"
    /\ compound = CompoundNbt_new(<<>>)
    /\ nsets = 0
    /\ rt = NoRoundTrip
    /\ arg = NoArg
    /\ out = NoArg

\* ------------------------------------------------------------------------
\* The peer.
\* ------------------------------------------------------------------------

\* The peer puts the bytes of a segment on the wire.
Feed(f) ==
    /\ pc # "panicked"
    /\ ~eof
    /\ Len(r) <= MaxPending
    /\ r' = r \o f
    /\ UNCHANGED <<state, eof, oc, pc, last, happy>>
    /\ UNCHANGED sendvars
    /\ UNCHANGED nbtvars
    /\ UNCHANGED codecvars

\* The peer closes the stream: reads beyond the bytes received now fail.
Close ==
    /\ pc # "panicked"
    /\ ~eof
    /\ eof' = TRUE
    /\ UNCHANGED <<state, r, oc, pc, last, happy>>
    /\ UNCHANGED sendvars
    /\ UNCHANGED nbtvars
    /\ UNCHANGED codecvars

\* ------------------------------------------------------------------------
\* PacketStream::next_packet and PacketStream::send.
\* ------------------------------------------------------------------------

\* What a next_packet call that computes res leaves behind.
NextPacketReturns(res) ==
    /\ res.why = "eof" => eof
    /\ state' = res.state
    /\ r' = SubSeq(r, res.p + 1, Len(r))
    /\ pc' = IF res.ok THEN "idle" ELSE "panicked"
    /\ last' = [called |-> TRUE, ok |-> res.ok, why |-> res.why,
                kind |-> res.packet.kind, packet |-> res.packet,
                before |-> state, after |-> res.state,
                consumed |-> res.p, hdr |-> res.hdr]

\* A next_packet call.  A read that finds too few bytes waits for the peer
\* while the stream is open and fails (unwrap of UnexpectedEof) once it is
\* closed; a panic ends the use of the stream.
NextPacket ==
    /\ pc = "idle"
    /\ NextPacketReturns(next_packet(r, state, oc))
    /\ happy' = IF happy >= 0 /\ happy < Len(HappyFrames)
                   /\ IsPrefix(HappyFrames[happy + 1], r)
                THEN happy + 1 ELSE -1
    /\ UNCHANGED <<eof, oc>>
    /\ UNCHANGED sendvars
    /\ UNCHANGED nbtvars
    /\ UNCHANGED codecvars

\* send, up to the end of its match: the scratch buffer is built, or an
\* assertion of the match panics.
SendBuild(i) ==
    /\ pc = "idle"
    /\ cur' = OutPackets[i]
    /\ sendat' = state
    /\ LET packet == OutPackets[i]
           b == OutBuilds[i]
       IN
        IF b.ok
        THEN /\ buf' \in b.bufs
             /\ wcall' = send_build_direct(packet)
             /\ sendst' = "built"
             /\ pc' = "sending"
        ELSE /\ buf' = <<>>
             /\ wcall' = send_build_direct(packet)
             /\ sendst' = "build_panic"
             /\ pc' = "panicked"
    /\ UNCHANGED <<state, r, eof, oc, last, happy>>
    /\ UNCHANGED nbtvars
    /\ UNCHANGED codecvars

\* The end of send: write_varint(&mut self.w, buf.len()), one write call per
\* byte, then the single self.w.write(&buf), of which the writer takes k bytes.
SendWrite ==
    /\ pc = "sending"
    /\ \E k \in Accepts(Len(buf)) :
          wcall' = wcall \o send_prefix(buf) \o SubSeq(buf, 1, k)
    /\ sendst' = "done"
    /\ pc' = "idle"
    /\ state' = send_state(cur, state)
    /\ UNCHANGED <<r, eof, oc, last, happy, cur, buf, sendat>>
    /\ UNCHANGED nbtvars
    /\ UNCHANGED codecvars

\* A write call of the end of send returns an error, after n bytes of the
\* prefix were written (n = its length: the write of buf fails): unwrap panics.
SendWriteFails ==
    /\ pc = "sending"
    /\ \E n \in 0..Len(send_prefix(buf)) :
          wcall' = wcall \o SubSeq(send_prefix(buf), 1, n)
    /\ sendst' = "write_panic"
    /\ pc' = "panicked"
    /\ UNCHANGED <<state, r, eof, oc, last, happy, cur, buf, sendat>>
    /\ UNCHANGED nbtvars
    /\ UNCHANGED codecvars

Next ==
    \/ \E f \in Segments : Feed(f)
    \/ Close
    \/ NextPacket
    \/ \E i \in 1..Len(OutPackets) : SendBuild(i)
    \/ SendWrite
    \/ SendWriteFails

Spec == Init /\ [][Next]_vars

\* ------------------------------------------------------------------------
\* The NBT codec on compounds built in-process.
\* ------------------------------------------------------------------------

\* The names given to compounds: "" and "r".
NbtNames == << <<>>, <<114>> >>

\* The names given to properties: "a" and "b".
NbtKeys == << <<97>>, <<98>> >>

\* The property values: one of each Nbt variant, the lists of scalars, of
\* strings and of compounds, and nested compounds.
NbtValues ==
    << Nbt("Byte", -1),
       Nbt("Short", -2),
       Nbt("Int", 65536),
       Nbt("Long", I64FromInt(-3)),
       Nbt("Float", BitsFromBeBytes(<<63, 128, 0, 0>>)),
       Nbt("Double", BitsFromBeBytes(<<191, 240, 0, 0, 0, 0, 0, 1>>)),
       Nbt("String", <<104, 105>>),
       Nbt("ByteArray", <<1, -1>>),
       Nbt("IntArray", <<-1>>),
       Nbt("LongArray", <<I64FromInt(5)>>),
       NbtList("Int", <<1, 2>>),
       NbtList("String", << <<104, 105>>, <<>> >>),
       NbtList("Compound", <<>>),
       NbtList("Compound", <<CompoundNbt_new(<<>>)>>),
       Nbt("Compound", CompoundNbt_new(<<98>>)),
       Nbt("Compound", CompoundNbt_set(CompoundNbt_new(<<98>>), <<105>>,
                                       Nbt("Int", 7))) >>

\* The stream is not used; an empty compound is at hand.
InitNbt == Init /\ oc

\* NBT documents as bytes, each with the root name it carries and, for the
\* property named key, the value it carries last (single: the root holds
\* that one property, which is no compound).  In order:
\*   the fixture of tests::basic_nbt_serde, "hello world" { meme: "Bananrama" };
\*   "" { a: Int 65536 };  "r" { b: LongArray [-1] };
\*   "" { a: List<Short> [1, -2] };  "" { a: Byte -1 };
\*   "" { a: Byte 5, a: Byte 7 };
\*   "" { a: Byte 5, b: Short 1, a: String "x" }.
NbtDocs ==
    << [bytes |-> <<10, 0, 11, 104, 101, 108, 108, 111, 32, 119, 111, 114, 108,
                    100, 8, 0, 4, 109, 101, 109, 101, 0, 9, 66, 97, 110, 97,
                    110, 114, 97, 109, 97, 0>>,
        single |-> TRUE,
        name |-> <<104, 101, 108, 108, 111, 32, 119, 111, 114, 108, 100>>,
        key |-> <<109, 101, 109, 101>>,
        value |-> Nbt("String", <<66, 97, 110, 97, 110, 114, 97, 109, 97>>)],
       [bytes |-> <<10, 0, 0, 3, 0, 1, 97, 0, 1, 0, 0, 0>>,
        single |-> TRUE, name |-> <<>>, key |-> <<97>>,
        value |-> Nbt("Int", 65536)],
       [bytes |-> <<10, 0, 1, 114, 12, 0, 1, 98, 0, 0, 0, 1,
                    255, 255, 255, 255, 255, 255, 255, 255, 0>>,
        single |-> TRUE, name |-> <<114>>, key |-> <<98>>,
        value |-> Nbt("LongArray", <<I64FromInt(-1)>>)],
       [bytes |-> <<10, 0, 0, 9, 0, 1, 97, 2, 0, 0, 0, 2, 0, 1, 255, 254, 0>>,
        single |-> TRUE, name |-> <<>>, key |-> <<97>>,
        value |-> NbtList("Short", <<1, -2>>)],
       [bytes |-> <<10, 0, 0, 1, 0, 1, 97, 255, 0>>,
        single |-> TRUE, name |-> <<>>, key |-> <<97>>,
        value |-> Nbt("Byte", -1)],
       [bytes |-> <<10, 0, 0, 1, 0, 1, 97, 5, 1, 0, 1, 97, 7, 0>>,
        single |-> FALSE, name |-> <<>>, key |-> <<97>>,
        value |-> Nbt("Byte", 7)],
       [bytes |-> <<10, 0, 0, 1, 0, 1, 97, 5, 2, 0, 1, 98, 0, 1,
                    8, 0, 1, 97, 0, 1, 120, 0>>,
        single |-> FALSE, name |-> <<>>, key |-> <<97>>,
        value |-> Nbt("String", <<120>>)] >>

\* CompoundNbt::new(name)
NbtNew(i) ==
    /\ compound' = CompoundNbt_new(NbtNames[i])
    /\ nsets' = 0
    /\ rt' = NoRoundTrip
    /\ arg' = [kind |-> "new", name |-> NbtNames[i]]
    /\ out' = NoArg
    /\ UNCHANGED streamvars
    /\ UNCHANGED sendvars

\* compound.set(name, value)
NbtSet(k, i) ==
    /\ nsets < MaxSets
    /\ compound' = CompoundNbt_set(compound, NbtKeys[k], NbtValues[i])
    /\ nsets' = nsets + 1
    /\ rt' = NoRoundTrip
    /\ arg' = [kind |-> "set", name |-> NbtKeys[k], value |-> NbtValues[i]]
    /\ out' = NoArg
    /\ UNCHANGED streamvars
    /\ UNCHANGED sendvars

\* What Nbt::read_compound made (res) of the bytes written.
RoundTrip(bytes, res) ==
    [done |-> TRUE, bytes |-> bytes, ok |-> res.ok,
     v |-> IF res.ok THEN res.v ELSE CompoundNbt_new(<<>>)]

\* write_compound_nbt(&mut buf, &compound), then Nbt::read_compound on the
\* bytes written.
NbtRoundTrip ==
    /\ ~rt.done
    /\ \E bytes \in write_compound_nbt(compound) :
          rt' = RoundTrip(bytes, read_compound(bytes, 0))
    /\ UNCHANGED <<compound, nsets>>
    /\ UNCHANGED streamvars
    /\ UNCHANGED sendvars
    /\ UNCHANGED codecvars

\* What Nbt::read_compound made (res) of a document, and the byte strings
\* write_compound_nbt may then write of the compound read.
ReadWrite(res) ==
    [kind |-> "read", ok |-> res.ok,
     v |-> IF res.ok THEN res.v ELSE CompoundNbt_new(<<>>),
     written |-> IF res.ok THEN write_compound_nbt(res.v) ELSE {}]

\* Nbt::read_compound on a document, then write_compound_nbt of the compound
\* read, which is the compound at hand from then on.
NbtRead(i) ==
    /\ arg' = [kind |-> "read", doc |-> i]
    /\ out' = ReadWrite(read_compound(NbtDocs[i].bytes, 0))
    /\ compound' = out'.v
    /\ nsets' = 0
    /\ rt' = NoRoundTrip
    /\ UNCHANGED streamvars
    /\ UNCHANGED sendvars

\* Documents "" { a: List } as bytes, with the element type and the
\* elements they carry: an empty list of every element tag id 0..12, and a
\* list of one compound "" {} laid out as write_compound_nbt_no_tagtype
\* writes the elements of NbtList::Compound, name and body with no tag id.
NbtListDocs ==
    { [bytes |-> <<10, 0, 0, 9, 0, 1, 97, TagId(tt), 0, 0, 0, 0, 0>>,
       lt |-> tt, v |-> <<>>] : tt \in TagTypes }
    \cup { [bytes |-> <<10, 0, 0, 9, 0, 1, 97, 10, 0, 0, 0, 1, 0, 0, 0, 0>>,
            lt |-> "Compound", v |-> <<CompoundNbt_new(<<>>)>>] }

\* Nbt::read_compound on a document holding a list: what it gave and the
\* bytes it consumed; the compound read is the compound at hand from then on.
NbtReadList(d) ==
    /\ arg' = [kind |-> "read_list", doc |-> d]
    /\ out' = [kind |-> "read_list"] @@ read_compound(d.bytes, 0)
    /\ compound' = IF out'.ok THEN out'.v ELSE CompoundNbt_new(<<>>)
    /\ nsets' = 0
    /\ rt' = NoRoundTrip
    /\ UNCHANGED streamvars
    /\ UNCHANGED sendvars

NextNbt ==
    \/ \E i \in 1..Len(NbtNames) : NbtNew(i)
    \/ \E k \in 1..Len(NbtKeys), i \in 1..Len(NbtValues) : NbtSet(k, i)
    \/ NbtRoundTrip
    \/ \E i \in 1..Len(NbtDocs) : NbtRead(i)
    \/ \E d \in NbtListDocs : NbtReadList(d)

SpecNbt == InitNbt /\ [][NextNbt]_vars


\* ------------------------------------------------------------------------
\* The codec functions of proto.rs, each applied to arguments of its own:
\* write_varint and read_varint_with_nread, write_position, BitSet.  They
\* are pure, so a behaviour makes one call, or builds one BitSet.
\* ------------------------------------------------------------------------

\* i64 values at the edges of every VarInt length: 2^k, 2^k - 1 (k = 64
\* gives -1, k = 63 i64::MAX) and -2^k (k = 63 gives i64::MIN).
VarintValues ==
    {[i \in 1..64 |-> IF i = k + 1 THEN 1 ELSE 0] : k \in 0..63}
    \cup {[i \in 1..64 |-> IF i <= k THEN 1 ELSE 0] : k \in 0..64}
    \cup {[i \in 1..64 |-> IF i > k THEN 1 ELSE 0] : k \in 0..63}

\* What may follow a VarInt in the reader.
VarintTails == {<<>>, <<1>>, <<255, 255>>}

\* n bytes b.
Repeat(b, n) == [i \in 1..n |-> b]

\* Byte strings given to read_varint_with_nread: runs of bytes with the
\* continuation bit set, ended or not by a byte without it.
VarintInputs ==
    { Repeat(128, 10) \o <<1>>, Repeat(128, 10), Repeat(255, 10) \o <<127>>,
      Repeat(128, 10) \o <<128, 1>>, Repeat(255, 12),
      Repeat(255, 9) \o <<1>>, Repeat(128, 9) \o <<2>>, <<128, 1>>, <<0>>, <<>> }

\* Position coordinates: x and z are i32, y is i16.
PositionXZ ==
    { (0 - Pow2(30)) - Pow2(30), (0 - Pow2(25)) - 1, 0 - Pow2(25), -1, 0, 1,
      Pow2(25) - 1, Pow2(25), Pow2(26) - 1, Pow2(26), (Pow2(30) - 1) + Pow2(30) }

PositionY ==
    { 0 - Pow2(15), (0 - Pow2(11)) - 1, 0 - Pow2(11), -1, 0, 1,
      Pow2(11) - 1, Pow2(11), Pow2(12) - 1, Pow2(12), Pow2(15) - 1 }

\* Sizes given to BitSet::with_num_bits, and bit indexes given to set and get.
BitSetSizes == {0, 1, 64, 65, 128}

BitIdxs == {0, 1, 12, 62, 63, 64, 65, 126, 127, 128}

\* write_varint(&mut buf, x), then read_varint_with_nread on what was
\* written, followed by other bytes.
VarintRoundTrip(x, tail) ==
    /\ arg = NoArg
    /\ arg' = [kind |-> "varint", x |-> x, tail |-> tail]
    /\ out' = [kind |-> "varint", bytes |-> write_varint(x),
               res |-> read_varint_with_nread(write_varint(x) \o tail, 0, oc)]
    /\ UNCHANGED <<streamvars, sendvars, nbtvars>>

\* read_varint_with_nread on given bytes.
VarintRead(bytes) ==
    /\ arg = NoArg
    /\ arg' = [kind |-> "read_varint", bytes |-> bytes]
    /\ out' = read_varint_with_nread(bytes, 0, oc)
    /\ UNCHANGED <<streamvars, sendvars, nbtvars>>

\* write_position(&mut buf, &Position { x, z, y })
WritePosition(x, z, y) ==
    /\ arg = NoArg
    /\ arg' = [kind |-> "position", x |-> x, z |-> z, y |-> y]
    /\ out' = write_position([x |-> x, z |-> z, y |-> y])
    /\ UNCHANGED <<streamvars, sendvars, nbtvars>>

\* BitSet::with_num_bits(n): arg keeps the indexes set since.
BitSetNew(n) ==
    /\ arg = NoArg
    /\ arg' = [kind |-> "bitset", n |-> n, set |-> {}, calls |-> 0]
    /\ out' = BitSet_with_num_bits(n)
    /\ UNCHANGED <<streamvars, sendvars, nbtvars>>

\* bs.set(bit_idx): compute_idx panics on an index out of range.
BitSetSet(bit_idx) ==
    /\ arg.kind = "bitset"
    /\ arg.calls < MaxBitSets
    /\ IF BitSet_in_range(out, bit_idx)
       THEN /\ arg' = [arg EXCEPT !.set = @ \cup {bit_idx}, !.calls = @ + 1]
            /\ out' = BitSet_set(out, bit_idx)
       ELSE /\ arg' = [kind |-> "bitset_panic", n |-> arg.n, bit_idx |-> bit_idx]
            /\ out' = NoArg
    /\ UNCHANGED <<streamvars, sendvars, nbtvars>>

NextCodec ==
    \/ \E x \in VarintValues, tail \in VarintTails : VarintRoundTrip(x, tail)
    \/ \E bytes \in VarintInputs : VarintRead(bytes)
    \/ \E x \in PositionXZ, z \in PositionXZ, y \in PositionY : WritePosition(x, z, y)
    \/ \E n \in BitSetSizes : BitSetNew(n)
    \/ \E bit_idx \in BitIdxs : BitSetSet(bit_idx)

SpecCodec == Init /\ [][NextCodec]_vars


\* ------------------------------------------------------------------------
\* run_server (server.rs): one client, the loop of next_packet, automatic
\* response and handle_packet.  arg is the record of the calls made so far,
\* out the place run_server is at.
\* ------------------------------------------------------------------------

\* What the peer of run_server sends at once.
ServerSegments ==
    { HappyFrames[i] : i \in 1..6 }
    \cup { HandshakeFrame(1), HandshakeFrame(3), Frame(<<4>>),
           HandshakeFrame(2) \o LoginStartFrame,
           LoginAckFrame \o FinishConfigFrame }

\* A loop with a fourth `if let`, answering a Handshake with FinishConfig.
\* ResponsesSentInTheirState tells the two apart.
ResponseToHandshakeToo(kind) ==
    CASE kind = "LoginStart" -> <<LoginSuccessPacket(<<>>)>>
      [] kind = "LoginAck" -> <<FinishConfigPacket>>
      [] kind = "FinishConfig" -> <<LoginPlayPacket(NoneOpt)>>
      [] kind = "Handshake" -> <<FinishConfigPacket>>
      [] OTHER -> <<>>

\* The three `if let` of the loop: the packet sent on an inbound packet.
Response(kind) ==
    CASE kind = "LoginStart" -> <<LoginSuccessPacket(<<>>)>>
      [] kind = "LoginAck" -> <<FinishConfigPacket>>
      [] kind = "FinishConfig" -> <<LoginPlayPacket(NoneOpt)>>
      [] OTHER -> <<>>

\* A loop that breaks once FinishConfig was handled.
\* OnDisconnectIsNeverCalled tells the two apart.
loop_exits_in_play(kind) == kind = "FinishConfig"

\* Whether the loop is left after handle_packet: it has no break.
loop_exits(kind) == FALSE

\* One call on record.
Event(ev, kind, st) == [ev |-> ev, kind |-> kind, state |-> st]

\* An iteration that calls handle_packet twice.
\* PacketsHandledOnceInOrder tells the two apart.
HandledTwice(kind, st) ==
    <<[ev |-> "handle_packet", kind |-> kind, state |-> st],
      [ev |-> "handle_packet", kind |-> kind, state |-> st]>>

\* The calls of s.handle_packet(todo_cid, packet) one iteration makes.
Handled(kind, st) == <<Event("handle_packet", kind, st)>>

\* run_server up to the loop: accept, PacketStream::new, s.on_connect.
ServerAccept ==
    /\ arg = NoArg
    /\ arg' = [kind |-> "calls", log |-> <<Event("on_connect", "None", state)>>,
               packets |-> 0]
    /\ out' = [kind |-> "server", at |-> "next_packet"]
    /\ UNCHANGED <<streamvars, sendvars, nbtvars>>

\* let packet = ps.next_packet(): a panic ends run_server.
ServerNextPacket ==
    /\ out.kind = "server"
    /\ out.at = "next_packet"
    /\ arg.packets < MaxPackets
    /\ NextPacketReturns(next_packet(r, state, oc))
    /\ happy' = -1
    /\ arg' = IF last'.ok
              THEN [arg EXCEPT !.log = Append(@, Event("next_packet", last'.kind, state')),
                               !.packets = @ + 1]
              ELSE [arg EXCEPT !.packets = @ + 1]
    /\ out' = [out EXCEPT !.at = IF ~last'.ok THEN "panicked"
                                 ELSE IF Response(last'.kind) # <<>> THEN "send"
                                 ELSE "handle_packet"]
    /\ UNCHANGED <<eof, oc>>
    /\ UNCHANGED <<sendvars, nbtvars>>

\* ps.send(response): none of the three responses panics while it is built.
ServerSend ==
    /\ out.kind = "server"
    /\ out.at = "send"
    /\ send_build(Response(last.kind)[1]).ok
    /\ out' = [out EXCEPT !.at = "handle_packet"]
    /\ arg' = [arg EXCEPT !.log =
                  Append(@, Event("send", Response(last.kind)[1].kind, state))]
    /\ UNCHANGED <<streamvars, sendvars, nbtvars>>

\* ps.send(response) on a writer that fails: unwrap panics.
ServerSendFails ==
    /\ out.kind = "server"
    /\ out.at = "send"
    /\ out' = [out EXCEPT !.at = "panicked"]
    /\ pc' = "panicked"
    /\ UNCHANGED arg
    /\ UNCHANGED <<state, r, eof, oc, last, happy>>
    /\ UNCHANGED <<sendvars, nbtvars>>

\* s.handle_packet(todo_cid, packet), and the end of the iteration.
ServerHandlePacket ==
    /\ out.kind = "server"
    /\ out.at = "handle_packet"
    /\ arg' = [arg EXCEPT !.log =
                  IF loop_exits(last.kind)
                  THEN @ \o Handled(last.kind, state)
                         \o <<Event("on_disconnect", "None", state)>>
                  ELSE @ \o Handled(last.kind, state)]
    /\ out' = [out EXCEPT !.at = IF loop_exits(last.kind) THEN "returned"
                                 ELSE "next_packet"]
    /\ UNCHANGED <<streamvars, sendvars, nbtvars>>

NextServer ==
    \/ \E f \in ServerSegments : Feed(f)
    \/ Close
    \/ ServerAccept
    \/ ServerNextPacket
    \/ ServerSend
    \/ ServerSendFails
    \/ ServerHandlePacket

SpecServer == Init /\ [][NextServer]_vars


\* ------------------------------------------------------------------------
\* send calls in a row on one PacketStream: out is what the writer has
\* received, arg the frames of the calls that completed.
\* ------------------------------------------------------------------------

\* PacketStream::new: the writer has received nothing.
SendNew ==
    /\ arg = NoArg
    /\ arg' = [kind |-> "sends", frames |-> <<>>, n |-> 0]
    /\ out' = [kind |-> "writer", w |-> <<>>]
    /\ UNCHANGED <<streamvars, sendvars, nbtvars>>

\* A send call that completes: write_varint(&mut self.w, buf.len()), then
\* the single self.w.write(&buf), of which the writer takes k bytes.
SendCall(i) ==
    /\ out.kind = "writer"
    /\ arg.n < MaxSends
    /\ OutBuilds[i].ok
    /\ \E b \in OutBuilds[i].bufs : \E k \in Accepts(Len(b)) :
          /\ out' = [out EXCEPT !.w = @ \o send_prefix(b) \o SubSeq(b, 1, k)]
          /\ arg' = [arg EXCEPT !.frames = @ \o send_prefix(b) \o b, !.n = @ + 1]
    /\ UNCHANGED <<streamvars, sendvars, nbtvars>>

\* A send call that panics: in its match, with nothing written, or at a
\* write the writer fails, with n bytes of the length written.
SendCallPanics(i) ==
    /\ out.kind = "writer"
    /\ arg.n < MaxSends
    /\ IF OutBuilds[i].ok
       THEN \E b \in OutBuilds[i].bufs : \E n \in 0..Len(send_prefix(b)) :
               out' = [kind |-> "panicked", w |-> out.w \o SubSeq(send_prefix(b), 1, n)]
       ELSE out' = [kind |-> "panicked", w |-> out.w]
    /\ UNCHANGED arg
    /\ UNCHANGED <<streamvars, sendvars, nbtvars>>

NextSend ==
    \/ SendNew
    \/ \E i \in 1..Len(OutPackets) : SendCall(i)
    \/ \E i \in 1..Len(OutPackets) : SendCallPanics(i)

SpecSend == Init /\ [][NextSend]_vars

\* ------------------------------------------------------------------------
\* Properties.
\* ------------------------------------------------------------------------

\* The order Handshaking < Login < Config < Play.
Rank(st) ==
    CASE st = "Handshaking" -> 0 [] st = "Login" -> 1
      [] st = "Config" -> 2 [] st = "Play" -> 3

\* A step in which a next_packet call returned a packet: only such a step
\* takes bytes off the reader.
DecodeStep == Len(r') < Len(r)

\* A step of a send call: its build or its write.
SendStep == sendst' # sendst

\* C1: from a fresh PacketStream, while every call so far found the next
\* frame of Handshake(next_state = 2), LoginStart, LoginAck, ClientInfoConfig,
\* PluginMessage, FinishConfig in front of the reader, the latest call
\* succeeded, returned that frame's packet and left the state Login, Login,
\* Config, Config, Config, Play respectively.
LoginFlowStates ==
    happy >= 1 =>
        /\ last.ok
        /\ last.kind = <<"Handshake", "LoginStart", "LoginAck", "ClientInfoConfig",
                         "PluginMessageConfig", "FinishConfig">>[happy]
        /\ last.after = HappyStates[happy]
        /\ state = HappyStates[happy]

\* The sixth frame of the flow is decoded and the state is Play.
LoginFlowDone == happy = 6 /\ last.ok /\ state = "Play"

\* The six (state, packet id) pairs next_packet decodes.
KnownPairs ==
    { <<"Handshaking", 0>>, <<"Login", 0>>, <<"Login", 3>>,
      <<"Config", 0>>, <<"Config", 1>>, <<"Config", 2>> }

\* The latest next_packet call read a packet id that, with the state it was
\* called in, is none of the six pairs.
UnknownPairRead ==
    /\ last.called
    /\ last.hdr.id_ok
    /\ \/ ~I64IsSmall(last.hdr.packid)
       \/ <<last.before, I64ToInt(last.hdr.packid)>> \notin KnownPairs

\* C2: a next_packet call that reads any other (state, packet id) pair than
\* the six fails, returns no packet and leaves the state as it was.
UnknownPairIsRefused ==
    UnknownPairRead =>
        /\ ~last.ok
        /\ last.kind = "None"
        /\ last.after = last.before
        /\ state = last.before

\* Id 0x03 was read in Play and the call panicked.
UnknownPairInPlay ==
    /\ UnknownPairRead
    /\ last.before = "Play"
    /\ last.hdr.packid = I64Three
    /\ last.why = "panic"

\* C3: over any sequence of next_packet and send calls the state never
\* moves backward in Handshaking < Login < Config < Play.
StateNeverMovesBackward == [][Rank(state') >= Rank(state)]_vars

\* Play was reached and a send has completed there.
PlayReachedWithSends == state = "Play" /\ sendst = "done" /\ sendat = "Play"

\* C4: a new PacketStream is in Handshaking; the state changes only in a
\* step where next_packet decodes Handshake in Handshaking, LoginAck in Login
\* or FinishConfig in Config; a step that decodes LoginStart, ClientInfoConfig
\* or PluginMessage leaves it unchanged.
StateChangesOnlyByThreePackets ==
    /\ state = "Handshaking"
    /\ [][/\ state' # state =>
                /\ DecodeStep
                /\ last'.ok
                /\ <<last'.before, last'.kind>> \in
                      { <<"Handshaking", "Handshake">>, <<"Login", "LoginAck">>,
                        <<"Config", "FinishConfig">> }
          /\ (DecodeStep /\ last'.kind \in {"LoginStart", "ClientInfoConfig",
                                            "PluginMessageConfig"}) =>
                state' = state]_vars

\* A PluginMessage was decoded in Config and the state is Config.
PluginMessageDecoded ==
    last.ok /\ last.kind = "PluginMessageConfig" /\ state = "Config"

\* C5: once a send call has completed, the bytes its writer took are the
\* VarInt of n followed by exactly n bytes, the packet id and the payload
\* (the scratch buffer).
SentFrameIsWhole ==
    sendst = "done" => wcall = write_varint(I64FromInt(Len(buf))) \o buf

\* C6: a next_packet call that returned a packet consumed the bytes of the
\* length VarInt plus as many bytes as that VarInt declares.
DecodeConsumesDeclaredLength ==
    (last.called /\ last.ok) =>
        /\ I64IsSmall(last.hdr.len_field)
        /\ last.consumed = last.hdr.len_nread + I64ToInt(last.hdr.len_field)

\* C7: while send has not finished serializing the packet into the scratch
\* buffer, and when the serialization panicked, the writer has taken no byte
\* of that call.
WriterUntouchedUntilBuilt ==
    sendst \in {"built", "build_panic"} => wcall = <<>>

\* The Position assertion of a LoginPlay failed and the writer has nothing.
LoginPlayBuildPanicked ==
    sendst = "build_panic" /\ cur.kind = "LoginPlay" /\ IsSome(cur.death_info)

\* C8: no step of a send call changes the connection state, whatever the
\* packet and the state.
SendKeepsState == [][SendStep => state' = state]_vars

\* LoginSuccess was sent in Login and the state is Login.
LoginSuccessSentInLogin ==
    /\ sendst = "done"
    /\ cur.kind = "LoginSuccess"
    /\ sendat = "Login"
    /\ state = "Login"

\* C9: a send of a packet whose State column is not the state the call
\* began in writes nothing and does not complete.
SendRefusesWrongState ==
    (sendst # "none" /\ OutPacketState(cur.kind) # sendat) =>
        /\ wcall = <<>>
        /\ sendst # "done"

\* C10: write_compound_nbt followed by Nbt::read_compound succeeds and gives
\* a compound of the same name, the same property names and equal values.
NbtRoundTripIsIdentity ==
    rt.done => (rt.ok /\ rt.v = compound)

\* Whether two Nbt values are the same: the tag, then the list's element
\* type, then the payload.
NbtEq(a, b) == a.tag = b.tag /\ a.lt = b.lt /\ a.v = b.v

VarintRoundTrips ==
    arg.kind = "varint" =>
        /\ Len(out.bytes) <= 10
        /\ out.res.ok
        /\ out.res.v.val = arg.x
        /\ out.res.v.nread = Len(out.bytes)
        /\ out.res.p = Len(out.bytes)

\* -1 was written as ten bytes and read back with other bytes behind it.
MinusOneRoundTripped ==
    /\ arg.kind = "varint"
    /\ arg.x = I64FromInt(-1)
    /\ arg.tail = <<255, 255>>
    /\ Len(out.bytes) = 10
    /\ out.res.ok
    /\ out.res.p = 10

\* Whether the first ten bytes of s all have the continuation bit set.
TenContinuationBytes(s) == Len(s) >= 10 /\ \A i \in 1..10 : s[i] >= 128

\* C13: read_varint_with_nread refuses an input whose first ten bytes all
\* have the continuation bit set: it returns no value and consumes no
\* eleventh byte.
ReadVarintStopsAtTen ==
    (arg.kind = "read_varint" /\ TenContinuationBytes(arg.bytes)) =>
        /\ ~out.ok
        /\ out.p <= 10

\* Whether a Position is within the signed 26/26/12-bit ranges.
PositionInSignedRange(x, z, y) ==
    /\ x >= 0 - Pow2(25) /\ x <= Pow2(25) - 1
    /\ z >= 0 - Pow2(25) /\ z <= Pow2(25) - 1
    /\ y >= 0 - Pow2(11) /\ y <= Pow2(11) - 1

\* The big-endian bytes of (x mod 2^26) << 38 | (z mod 2^26) << 12 | (y mod 2^12).
PositionWord(x, z, y) ==
    I64ToBeBytes([i \in 1..64 |->
        IF i >= 39 THEN ((x % Pow2(26)) \div Pow2(i - 39)) % 2
        ELSE IF i >= 13 THEN ((z % Pow2(26)) \div Pow2(i - 13)) % 2
        ELSE ((y % Pow2(12)) \div Pow2(i - 1)) % 2])

\* C14: for every Position within the signed ranges, negative coordinates
\* included, write_position succeeds and writes the packed big-endian word.
PositionInRangeIsWritten ==
    (arg.kind = "position" /\ PositionInSignedRange(arg.x, arg.z, arg.y)) =>
        /\ out.ok
        /\ out.bytes = PositionWord(arg.x, arg.z, arg.y)

\* C15: write_position refuses, writing no byte, every Position with a
\* coordinate outside the signed ranges.
PositionOutOfRangeIsRefused ==
    (arg.kind = "position" /\ ~PositionInSignedRange(arg.x, arg.z, arg.y)) =>
        /\ ~out.ok
        /\ out.bytes = <<>>

\* C16: after with_num_bits(n) and set(i) for the i of a set S, in any
\* order and with repeats, get(j) is true exactly for the j of S, for
\* every j in range, bit 63 of each long included.
BitSetGetIsMembership ==
    arg.kind = "bitset" =>
        \A j \in 0..(64 * Len(out.longs) - 1) :
            BitSet_get(out, j) <=> j \in arg.set

\* Bits 63 and 127 were set, one of them twice.
HighBitsSet ==
    /\ arg.kind = "bitset"
    /\ arg.set = {63, 127}
    /\ arg.calls = 3
    /\ BitSet_get(out, 63)
    /\ BitSet_get(out, 127)
    /\ ~BitSet_get(out, 62)

\* Names to look up: those given to set, and one never set.
ProbeNames == {NbtKeys[k] : k \in 1..Len(NbtKeys)} \cup {<<99>>}

\* A step that is a call of CompoundNbt::set.
SetStep == arg'.kind = "set" /\ nsets' = nsets + 1

\* C17: get(k) of a new compound is None for every name; after a call
\* set(k, v), get(k) is v and get of every other name is what it was; and a
\* compound read from a document that repeats a property name holds, under
\* that name, the value of the last occurrence.
LatestSetWins ==
    /\ [](arg.kind = "new" =>
            \A n \in ProbeNames : CompoundNbt_get(compound, n).tag = "None")
    /\ [][SetStep =>
            /\ NbtEq(CompoundNbt_get(compound', arg'.name), arg'.value)
            /\ \A n \in ProbeNames \ {arg'.name} :
                  NbtEq(CompoundNbt_get(compound', n), CompoundNbt_get(compound, n))]_vars
    /\ [](arg.kind = "read" =>
            /\ out.ok
            /\ NbtEq(CompoundNbt_get(out.v, NbtDocs[arg.doc].key), NbtDocs[arg.doc].value)
            /\ CompoundNbt_get(out.v, <<99>>).tag = "None")

\* The document "" { a: Byte 5, b: Short 1, a: String "x" } was read, then
\* a was set twice: a holds the second value and b still the one read.
NameSetTwice ==
    /\ arg.kind = "set"
    /\ nsets = 2
    /\ arg.name = <<97>>
    /\ NbtEq(CompoundNbt_get(compound, <<98>>), Nbt("Short", 1))
    /\ NbtEq(CompoundNbt_get(compound, <<97>>), NbtValues[2])

\* C18: the scratch buffer of an outbound DisconnectLogin is the id 0x00,
\* then the VarInt byte length of {text:"<reason>"}, then those bytes.
DisconnectReasonIsLengthPrefixed ==
    (cur.kind = "DisconnectLogin" /\ sendst \in {"built", "done"}) =>
        buf = write_varint(I64Zero) \o write_string(JsonText(cur.reason))

\* C19: in Handshaking, a next_packet call on a Handshake frame whose
\* next_state is 1 (Status) or 2 (Login) returns the Handshake packet with
\* that next_state and leaves the state Login.
HandshakeDecodesForStatusAndLogin ==
    [][\A ns \in {1, 2} :
          (DecodeStep /\ state = "Handshaking" /\ IsPrefix(HandshakeFrame(ns), r)) =>
              /\ last'.ok
              /\ last'.kind = "Handshake"
              /\ last'.packet.next_state = <<"Status", "Login">>[ns]
              /\ last'.consumed = Len(HandshakeFrame(ns))
              /\ state' = "Login"]_vars

\* A Handshake with next_state Status was decoded and the state is Login.
StatusHandshakeDecoded ==
    /\ last.ok
    /\ last.kind = "Handshake"
    /\ last.packet.next_state = "Status"
    /\ last.before = "Handshaking"
    /\ state = "Login"

\* C20: once the state is Play it stays Play under every next_packet and
\* send step, and no next_packet call made in Play returns a packet.
PlayIsTerminal ==
    /\ [][state = "Play" => state' = "Play"]_vars
    /\ []((last.called /\ last.before = "Play") =>
            (~last.ok /\ last.after = "Play"))

\* A packet was sent in Play, then a next_packet call in Play read the
\* header of a frame and failed.
FrameRefusedInPlay ==
    /\ last.called
    /\ last.before = "Play"
    /\ last.hdr.id_ok
    /\ ~last.ok
    /\ sendst = "done"
    /\ sendat = "Play"
    /\ state = "Play"

\* C21: after any sequence of completed send calls, the writer has
\* received the whole frames of the calls, one after the other in call order.
WriterHoldsWholeFramesInOrder ==
    out.kind = "writer" => out.w = arg.frames

\* The packets run_server answers, with the answer to each.
Answered ==
    [LoginStart |-> "LoginSuccess", LoginAck |-> "FinishConfig",
     FinishConfig |-> "LoginPlay"]

\* The calls run_server has made so far.
Log == IF arg.kind = "calls" THEN arg.log ELSE <<>>

ResponsesSentInTheirState ==
    \A i \in 1..Len(Log) :
        /\ Log[i].ev = "send" =>
              /\ Log[i - 1].ev = "next_packet"
              /\ Log[i - 1].kind \in DOMAIN Answered
              /\ Log[i].kind = Answered[Log[i - 1].kind]
              /\ Log[i].state = OutPacketState(Log[i].kind)
        /\ (Log[i].ev = "next_packet" /\ Log[i].kind \notin DOMAIN Answered
                /\ i < Len(Log)) =>
              Log[i + 1].ev = "handle_packet"

\* The three responses were sent, the last of them in Play, and a
\* ClientInfoConfig was handled without one.
AllResponsesSent ==
    /\ \E i \in 1..Len(Log) : Log[i].ev = "send" /\ Log[i].kind = "LoginSuccess"
    /\ \E i \in 1..Len(Log) : Log[i].ev = "send" /\ Log[i].kind = "FinishConfig"
    /\ \E i \in 1..Len(Log) :
          Log[i].ev = "send" /\ Log[i].kind = "LoginPlay" /\ Log[i].state = "Play"
    /\ \E i \in 1..Len(Log) :
          Log[i].ev = "handle_packet" /\ Log[i].kind = "ClientInfoConfig"

\* C30: run_server never calls on_disconnect and never returns: after
\* on_connect it is in the loop, or a panic has ended it.
OnDisconnectIsNeverCalled ==
    /\ \A i \in 1..Len(Log) : Log[i].ev # "on_disconnect"
    /\ out.kind = "server" =>
          out.at \in {"next_packet", "send", "handle_packet", "panicked"}

\* The client closed the stream in Play: next_packet panicked on the end of
\* the stream after FinishConfig was handled, and on_disconnect was not called.
ClientLeftInPlay ==
    /\ out.kind = "server"
    /\ out.at = "panicked"
    /\ last.why = "eof"
    /\ state = "Play"
    /\ Log[Len(Log)].ev = "handle_packet"
    /\ Log[Len(Log)].kind = "FinishConfig"

\* C23: the data of a PluginMessageConfig that next_packet returns has the
\* length the frame declares less the bytes of the packet id and the bytes
\* of the channel string, length VarInt and content, and the call consumes
\* the frame as declared; a frame that declares less than its id and channel
\* take is refused.
PluginMessageDataFillsTheFrame ==
    /\ []((last.ok /\ last.kind = "PluginMessageConfig") =>
            /\ I64IsSmall(last.hdr.len_field)
            /\ Len(last.packet.data) =
                  I64ToInt(last.hdr.len_field) - last.hdr.id_nread
                    - Len(write_string(last.packet.channel))
            /\ last.consumed = last.hdr.len_nread + I64ToInt(last.hdr.len_field))
    /\ [][(DecodeStep /\ state = "Config" /\ IsPrefix(PluginMessageShortFrame, r)) =>
            (~last'.ok /\ last'.why = "panic")]_vars

\* The PluginMessage of channel "b" with data 07 08 was returned.
PluginMessageDataRead ==
    /\ last.ok
    /\ last.kind = "PluginMessageConfig"
    /\ last.packet.channel = <<98>>
    /\ last.packet.data = <<7, 8>>
    /\ last.consumed = Len(PluginMessageFrame)

\* C24: a next_packet call that fails, wherever it fails, leaves the state
\* it found.
FailedCallKeepsState ==
    (last.called /\ ~last.ok) =>
        /\ last.after = last.before
        /\ state = last.before
        /\ last.packet.kind = "None"

\* A Handshake with next_state 3 was read to its end and refused, and the
\* state is still Handshaking.
BadHandshakeLeftHandshaking ==
    /\ last.called
    /\ ~last.ok
    /\ last.why = "panic"
    /\ last.before = "Handshaking"
    /\ last.consumed = Len(HandshakeFrame(3))
    /\ state = "Handshaking"

\* Frames with an enum value outside its set: next_state 3, chat_mode 3,
\* main_hand 2; each with the state its packet is read in.
BadEnumFrames ==
    { <<"Handshaking", HandshakeFrame(3)>>,
      <<"Config", ClientInfoConfigFrame(3, 1, 1)>>,
      <<"Config", ClientInfoConfigFrame(0, 1, 2)>> }

\* C25: next_packet refuses a Handshake whose next_state is not 1 or 2 and a
\* ClientInfoConfig whose chat_mode is not 0, 1 or 2 or whose main_hand is
\* not 0 or 1, and returns no packet.
BadEnumIsRefused ==
    [][\A f \in BadEnumFrames :
          (DecodeStep /\ state = f[1] /\ IsPrefix(f[2], r)) =>
              /\ ~last'.ok
              /\ last'.why = "panic"
              /\ last'.packet.kind = "None"]_vars

\* A ClientInfoConfig with main_hand 2 was read up to its main_hand, two
\* bytes before its end, and refused.
BadMainHandRefused ==
    /\ last.called
    /\ ~last.ok
    /\ last.why = "panic"
    /\ last.before = "Config"
    /\ last.hdr.packid = I64Zero
    /\ last.consumed = Len(ClientInfoConfigFrame(0, 1, 2)) - 2

\* C26: every property of the compound at hand is written as its tag id,
\* then its own key in the compound as a u16-prefixed string, then the
\* payload, a property whose value is a compound included, and the compound
\* ends with one End byte.
PropertiesWrittenUnderTheirKey ==
    /\ \A k \in DOMAIN compound.props :
          \A w \in WriteProp(k, compound.props[k]) :
              IsPrefix(write_tagtype(compound.props[k].tag) \o write_ushort_string(k), w)
    /\ \A bytes \in write_compound_nbt(compound) :
          bytes[Len(bytes)] = TagId("End")

\* C27: a list of N compounds laid out as the writer lays out the elements
\* of NbtList::Compound, each a name and a body ended by End with no tag id
\* in front, is read as those N compounds.
CompoundListReadAsWritten ==
    (arg.kind = "read_list" /\ arg.doc.lt = "Compound" /\ Len(arg.doc.v) > 0) =>
        /\ arg.doc.bytes \in
              write_compound_nbt(CompoundNbt_set(CompoundNbt_new(<<>>), <<97>>,
                                                 NbtList("Compound", arg.doc.v)))
        /\ out.ok
        /\ out.p = Len(arg.doc.bytes)
        /\ CompoundNbt_get(out.v, <<97>>).lt = "Compound"
        /\ Len(CompoundNbt_get(out.v, <<97>>).v) = Len(arg.doc.v)

\* C28: a list of length 0 is read for every element tag id 0..12: the call
\* consumes the tag id and the length and no more, and the list read keeps
\* the element type.
EmptyListReadForEveryType ==
    (arg.kind = "read_list" /\ arg.doc.v = <<>>) =>
        /\ out.ok
        /\ out.p = Len(arg.doc.bytes)
        /\ CompoundNbt_get(out.v, <<97>>).tag = "List"
        /\ CompoundNbt_get(out.v, <<97>>).lt = arg.doc.lt
        /\ CompoundNbt_get(out.v, <<97>>).v = <<>>

====
